---- MODULE Spec2Model ----
(***************************************************************************)
(* Entertainment production pipeline: brief -> Script -> Breakdown ->      *)
(* Storyboard -> advisory notes, with a validation gate after each stage   *)
(* (src/src/workflow/entertainment_workflow.py and the generators and      *)
(* models it calls).                                                       *)
(*                                                                         *)
(* Strings are kept as atoms where the code only compares them or tests    *)
(* them for blankness (titles, locations, names).  Free text (dialogue     *)
(* lines, scene descriptions) is a record of what the code measures on it: *)
(* the number of whitespace-separated words (len(text.split())), the       *)
(* number of characters (len(text)) and the set of lower-case keywords it  *)
(* contains as substrings.  Optional[int] is <<>> for None and <<n>> for n.*)
(***************************************************************************)
EXTENDS Integers, Sequences, FiniteSets, TLC

(***************************************************************************)
(* Bounds of the model                                                     *)
(***************************************************************************)
\* briefs are tried with every target duration in -BelowZero..MaxTarget
BelowZero == 2
MaxTarget == 125
\* hand-made scripts (pure-function checks) have at most MaxScenes scenes
MaxScenes == 2

(***************************************************************************)
(* Program constants                                                       *)
(***************************************************************************)
MinDuration == 30
MaxDuration == 120
MaxDialogueChars == 500
MaxDialogueWords == 50
HookSeconds == 5
DevelopmentThreshold == 45

(***************************************************************************)
(* Small helpers                                                           *)
(***************************************************************************)
None == <<>>

Some(n) == <<n>>

\* Python's "x or d" on an Optional[int]: None and 0 are both falsy
OrElse(opt, d) == IF opt = None \/ opt[1] = 0 THEN d ELSE opt[1]

Abs(x) == IF x < 0 THEN -x ELSE x

Max(a, b) == IF a >= b THEN a ELSE b

Min(a, b) == IF a <= b THEN a ELSE b

\* "not s or not s.strip()" for the string atoms the model uses
IsBlank(s) == s \in {"", "   "}

Txt(w, c, k) == [words |-> w, chars |-> c, kw |-> k]

\* "not text or not text.strip()": a text without any word
TxtBlank(t) == t.words = 0

RECURSIVE SumSeq(_)
SumSeq(s) == IF s = <<>> THEN 0 ELSE s[1] + SumSeq(Tail(s))

RECURSIVE Flatten(_)
Flatten(ss) == IF ss = <<>> THEN <<>> ELSE ss[1] \o Flatten(Tail(ss))

Range(s) == {s[i] : i \in 1..Len(s)}

\* index of the first element of s satisfying P (0 when there is none):
\* the element at which a validating for-loop returns
FirstIdx(s, P(_)) ==
  IF \E i \in 1..Len(s) : P(s[i])
  THEN CHOOSE i \in 1..Len(s) : P(s[i]) /\ \A j \in 1..(i-1) : ~P(s[j])
  ELSE 0

Ok == [valid |-> TRUE, error |-> "None", scene |-> 0]

Fail(msg) == [valid |-> FALSE, error |-> msg, scene |-> 0]

FailAt(msg, n) == [valid |-> FALSE, error |-> msg, scene |-> n]

(***************************************************************************)
(* models/script.py                                                        *)
(***************************************************************************)
Platforms == {"tiktok", "kuaishou", "youtube_shorts", "instagram_reels"}

Dialogue(c, t, a) == [character |-> c, text |-> t, action |-> a]

Character(n, d, a) == [name |-> n, description |-> d, age_range |-> a]

Scene(n, loc, tod, ie, desc, dlgs, dur, hook) ==
  [scene_number |-> n, location |-> loc, time_of_day |-> tod,
   interior_exterior |-> ie, description |-> desc, dialogues |-> dlgs,
   estimated_duration_seconds |-> dur, is_hook |-> hook]

CostFlag(t, n, c) == [element_type |-> t, scene |-> n, estimated_complexity |-> c]

Dialogue_validate(d) ==
  IF IsBlank(d.character) THEN Fail("Character name cannot be empty")
  ELSE IF TxtBlank(d.text) THEN Fail("Dialogue text cannot be empty")
  ELSE IF d.text.chars > MaxDialogueChars
       THEN Fail("Dialogue text too long (max 500 characters)")
  ELSE Ok

Character_validate(c) ==
  IF IsBlank(c.name) THEN Fail("Character name cannot be empty") ELSE Ok

Scene_validate(s) ==
  IF s.scene_number < 1 THEN Fail("Scene number must be positive")
  ELSE IF IsBlank(s.location) THEN Fail("Location cannot be empty")
  ELSE IF s.time_of_day \notin {"DAY", "NIGHT", "DAWN", "DUSK"}
       THEN Fail("Invalid time_of_day")
  ELSE IF s.interior_exterior \notin {"INT", "EXT"}
       THEN Fail("Invalid interior_exterior")
  ELSE LET bad(d) == ~Dialogue_validate(d).valid
           i == FirstIdx(s.dialogues, bad)
       IN  IF i # 0
           THEN FailAt(Dialogue_validate(s.dialogues[i]).error, s.scene_number)
           ELSE Ok

Script_validate(script) ==
  IF IsBlank(script.title) THEN Fail("Title cannot be empty")
  ELSE IF IsBlank(script.genre) THEN Fail("Genre cannot be empty")
  ELSE IF ~(MinDuration <= script.target_duration_seconds
            /\ script.target_duration_seconds <= MaxDuration)
       THEN Fail("Target duration must be between 30-120 seconds")
  ELSE IF IsBlank(script.target_audience) THEN Fail("Target audience cannot be empty")
  ELSE IF script.scenes = <<>> THEN Fail("Script must have at least one scene")
  ELSE IF ~(\E i \in 1..Min(2, Len(script.scenes)) : script.scenes[i].is_hook)
       THEN Fail("Script must have a hook in the first scene")
  ELSE LET badc(c) == ~Character_validate(c).valid
           ci == FirstIdx(script.characters, badc)
           bads(s) == ~Scene_validate(s).valid
           si == FirstIdx(script.scenes, bads)
           character_names == {script.characters[k].name : k \in 1..Len(script.characters)}
           undeclared(s) == \E k \in 1..Len(s.dialogues) :
                               s.dialogues[k].character \notin character_names
           ui == FirstIdx(script.scenes, undeclared)
       IN  IF ci # 0 THEN Character_validate(script.characters[ci])
           ELSE IF si # 0 THEN Scene_validate(script.scenes[si])
           ELSE IF ui # 0
                THEN FailAt("Character in scene not in character list",
                            script.scenes[ui].scene_number)
           ELSE Ok

(***************************************************************************)
(* generators/script_generator.py : ScriptGenerator                        *)
(***************************************************************************)
\* the genre strings the model tries; Has(g, k) is "k in genre.lower()"
Genres == {"Romantic Comedy", "Comedy, Romantic", "Dark Comedy", "Comedy Drama",
           "Drama", "Horror", "Thriller", "Sci-Fi", "   "}

GenreSubstrings(g) ==
  CASE g = "Romantic Comedy"  -> {"romantic", "comedy", "romantic comedy"}
    [] g = "Comedy, Romantic" -> {"romantic", "comedy"}
    [] g = "Dark Comedy"      -> {"comedy"}
    [] g = "Comedy Drama"     -> {"comedy", "drama"}
    [] g = "Drama"            -> {"drama"}
    [] g = "Horror"           -> {"horror"}
    [] g = "Thriller"         -> {"thriller"}
    [] OTHER                  -> {}

Has(g, k) == k \in GenreSubstrings(g)

generate_characters(genre) ==
  IF Has(genre, "romantic") /\ Has(genre, "comedy")
  THEN << Character("Maya", "Barista with a secret talent", "22-28"),
          Character("Alex", "Regular customer, tech startup founder", "25-30") >>
  ELSE IF Has(genre, "comedy")
  THEN << Character("Jordan", "Optimistic dreamer", "20-28"),
          Character("Sam", "Sarcastic best friend", "20-28") >>
  ELSE IF Has(genre, "drama")
  THEN << Character("Elena", "Determined protagonist", "25-35"),
          Character("Marcus", "Mysterious stranger", "30-40") >>
  ELSE IF Has(genre, "horror") \/ Has(genre, "thriller")
  THEN << Character("Riley", "Skeptical investigator", "25-32") >>
  ELSE << Character("Taylor", "Relatable protagonist", "22-30") >>

\* the first key of the descriptions dict, in insertion order, found in genre
get_scene_description(genre, scene_type) ==
  IF Has(genre, "romantic comedy")
  THEN CASE scene_type = "hook"        -> Txt(11, 66, {"cat"})
         [] scene_type = "development" -> Txt(8, 69, {})
         [] OTHER                      -> Txt(9, 56, {})
  ELSE IF Has(genre, "comedy")
  THEN CASE scene_type = "hook"        -> Txt(10, 58, {})
         [] scene_type = "development" -> Txt(8, 61, {"age"})
         [] OTHER                      -> Txt(8, 50, {"age"})
  ELSE IF Has(genre, "drama")
  THEN CASE scene_type = "hook"        -> Txt(9, 48, {})
         [] scene_type = "development" -> Txt(9, 54, {"age"})
         [] OTHER                      -> Txt(9, 55, {"cat"})
  ELSE IF Has(genre, "horror")
  THEN CASE scene_type = "hook"        -> Txt(6, 43, {})
         [] scene_type = "development" -> Txt(7, 46, {"fight"})
         [] OTHER                      -> Txt(8, 60, {})
  ELSE IF Has(genre, "thriller")
  THEN CASE scene_type = "hook"        -> Txt(8, 45, {})
         [] scene_type = "development" -> Txt(5, 36, {})
         [] OTHER                      -> Txt(5, 42, {})
  ELSE CASE scene_type = "hook"        -> Txt(5, 37, {"age"})
         [] scene_type = "development" -> Txt(4, 26, {})
         [] OTHER                      -> Txt(4, 41, {})

\* (dialogue text, stage direction)
generate_hook(genre) ==
  IF Has(genre, "romantic") /\ Has(genre, "comedy")
  THEN << Txt(5, 26, {}), "freezes mid-pour, eyes wide with genuine surprise" >>
  ELSE IF Has(genre, "comedy")
  THEN << Txt(8, 37, {}), "stares at chaos, deadpan delivery" >>
  ELSE IF Has(genre, "drama")
  THEN << Txt(6, 37, {}), "voice cracks slightly, frozen in doorway" >>
  ELSE IF Has(genre, "horror") \/ Has(genre, "thriller")
  THEN << Txt(4, 18, {}), "stops dead, breath held, listening intently" >>
  ELSE << Txt(4, 29, {}), "locks eyes with camera, jaw set" >>

generate_development(genre) ==
  IF Has(genre, "romantic") /\ Has(genre, "comedy")
  THEN << Txt(14, 81, {"drink"}),
          "nervous laugh, fidgets with cup sleeve, can't quite meet their eyes" >>
  ELSE IF Has(genre, "comedy")
  THEN << Txt(10, 57, {}), "awkward laugh that trails off, realizes the magnitude" >>
  ELSE IF Has(genre, "drama")
  THEN << Txt(10, 51, {}), "takes a shaky breath, steps closer with purpose" >>
  ELSE << Txt(7, 37, {}), "steadies voice, gathering courage" >>

generate_resolution(genre) ==
  IF Has(genre, "romantic") /\ Has(genre, "comedy")
  THEN << Txt(4, 22, {}), "genuine smile breaks through, eyes soften with warmth" >>
  ELSE IF Has(genre, "comedy")
  THEN << Txt(8, 37, {}), "laughs genuinely, tension releases" >>
  ELSE IF Has(genre, "drama")
  THEN << Txt(6, 27, {}), "exhales deeply, shoulders drop, relieved smile" >>
  ELSE << Txt(5, 34, {}), "looks directly at camera, knowing smile" >>

get_location_for_genre(genre, scene_type) ==
  IF Has(genre, "romantic") /\ Has(genre, "comedy")
  THEN CASE scene_type = "hook"        -> "Coffee Shop - Counter"
         [] scene_type = "development" -> "Coffee Shop - Corner Table"
         [] OTHER                      -> "Coffee Shop - Window Seat"
  ELSE IF Has(genre, "comedy")
  THEN CASE scene_type = "hook"        -> "Apartment - Kitchen"
         [] scene_type = "development" -> "Apartment - Living Room"
         [] OTHER                      -> "Apartment - Balcony"
  ELSE IF Has(genre, "drama")
  THEN CASE scene_type = "hook"        -> "Train Station Platform"
         [] scene_type = "development" -> "Train Station Bench"
         [] OTHER                      -> "Train Station Exit"
  ELSE CASE scene_type = "hook"        -> "Location - Hook"
         [] scene_type = "development" -> "Location - Development"
         [] OTHER                      -> "Location - Resolution"

\* mutation: the threshold compared with > instead of >=
has_development_strict(target_duration) == target_duration > DevelopmentThreshold

\* the development scene exists when the target allows it
has_development(target_duration) == target_duration >= DevelopmentThreshold

\* mutation: the development scene takes all that the hook left
dev_duration_of_all(remaining_duration) == remaining_duration

\* seconds given to the development scene out of what the hook left
dev_duration_of(remaining_duration) == remaining_duration \div 2

\* mutation: the resolution scene numbered 3 whatever came before it
resolution_number_fixed(scenes) == 3

\* scene_number of the resolution scene, given the scenes emitted before it
resolution_number(scenes) == Len(scenes) + 1

generate_scenes(genre, target_duration, characters) ==
  LET char1 == IF Len(characters) > 0 THEN characters[1].name ELSE "Character"
      hook_scene == Scene(1, get_location_for_genre(genre, "hook"), "DAY", "INT",
                          get_scene_description(genre, "hook"),
                          << Dialogue(char1, generate_hook(genre)[1], generate_hook(genre)[2]) >>,
                          Some(HookSeconds), TRUE)
      remaining0 == target_duration - HookSeconds
      dev_duration == dev_duration_of(remaining0)
      dev_scene == Scene(2, get_location_for_genre(genre, "development"), "DAY", "INT",
                         get_scene_description(genre, "development"),
                         << Dialogue(char1, generate_development(genre)[1],
                                     generate_development(genre)[2]) >>,
                         Some(dev_duration), FALSE)
      before == IF has_development(target_duration)
                THEN << hook_scene, dev_scene >> ELSE << hook_scene >>
      remaining == IF has_development(target_duration)
                   THEN remaining0 - dev_duration ELSE remaining0
      resolution_scene == Scene(resolution_number(before),
                                get_location_for_genre(genre, "resolution"), "DAY", "INT",
                                get_scene_description(genre, "resolution"),
                                << Dialogue(char1, generate_resolution(genre)[1],
                                            generate_resolution(genre)[2]) >>,
                                Some(remaining), FALSE)
  IN  Append(before, resolution_scene)

\* flags of one scene, in the order the loop appends them
scene_cost_flags(scene) ==
  (IF scene.time_of_day = "NIGHT"
   THEN << CostFlag("night_scene", scene.scene_number, "MEDIUM") >> ELSE <<>>)
  \o (IF scene.interior_exterior = "EXT"
      THEN << CostFlag("location", scene.scene_number, "LOW") >> ELSE <<>>)
  \o (IF Len(scene.dialogues) > 3
      THEN << CostFlag("extras", scene.scene_number, "MEDIUM") >> ELSE <<>>)

identify_cost_flags(scenes) ==
  Flatten([i \in 1..Len(scenes) |-> scene_cost_flags(scenes[i])])

ScriptGenerator_generate(title, genre, platform, target_duration_seconds, target_audience) ==
  LET characters == generate_characters(genre)
      scenes == generate_scenes(genre, target_duration_seconds, characters)
  IN  [title |-> title, genre |-> genre, platform |-> platform,
       target_duration_seconds |-> target_duration_seconds,
       target_audience |-> target_audience,
       characters |-> characters, scenes |-> scenes,
       cost_flags |-> identify_cost_flags(scenes)]

(***************************************************************************)
(* generators/script_generator.py : ScriptValidator                        *)
(***************************************************************************)
\* an issue string: its fixed wording and the numbers formatted into it
Issue(msg, n) == [msg |-> msg, args |-> << n >>]

IssueL(msg, ns) == [msg |-> msg, args |-> ns]

\* one "too long" issue per dialogue of more than 50 words, in scene order
long_dialogue_issues(script) ==
  Flatten([i \in 1..Len(script.scenes) |->
     LET sc == script.scenes[i]
     IN  Flatten([k \in 1..Len(sc.dialogues) |->
            IF sc.dialogues[k].text.words > MaxDialogueWords
            THEN << Issue("Dialogue too long (>50 words may not be conversational)",
                          sc.scene_number) >>
            ELSE <<>>])])

total_estimated_duration(script) ==
  SumSeq([i \in 1..Len(script.scenes) |->
            OrElse(script.scenes[i].estimated_duration_seconds, 0)])

\* mutation: a deviation of exactly 30% already counts
deviates_30_inclusive(total, target) == 10 * Abs(total - target) >= 3 * target

\* abs(total - target) / target > 0.3 on integers
deviates_30(total, target) == 10 * Abs(total - target) > 3 * target

duration_issues(script) ==
  LET total_duration == total_estimated_duration(script)
  IN  IF total_duration > 0
         /\ deviates_30(total_duration, script.target_duration_seconds)
      THEN << Issue("Total estimated duration deviates significantly from target", 0) >>
      ELSE <<>>

\* mutation: the duration check is skipped once a dialogue was too long
validate_for_production_short_circuit(script) ==
  LET r == Script_validate(script)
  IN  IF ~r.valid
      THEN [valid |-> FALSE, issues |-> << Issue(r.error, r.scene) >>]
      ELSE IF long_dialogue_issues(script) # <<>>
      THEN [valid |-> FALSE, issues |-> long_dialogue_issues(script)]
      ELSE [valid |-> duration_issues(script) = <<>>, issues |-> duration_issues(script)]

ScriptValidator_validate_for_production(script) ==
  LET r == Script_validate(script)
  IN  IF ~r.valid
      THEN [valid |-> FALSE, issues |-> << Issue(r.error, r.scene) >>]
      ELSE LET issues == long_dialogue_issues(script) \o duration_issues(script)
           IN  [valid |-> issues = <<>>, issues |-> issues]

(***************************************************************************)
(* models/breakdown.py                                                     *)
(***************************************************************************)
\* ProductionElement; subject is the character name formatted into the
\* description ("<character> costume"), "" when there is none
ProductionElement(t, d, q, n) ==
  [element_type |-> t, description |-> d, subject |-> "", quantity |-> q, notes |-> n]

Costume(character) ==
  [element_type |-> "wardrobe", description |-> "costume", subject |-> character,
   quantity |-> 1, notes |-> "Character-appropriate attire"]

BreakdownEntry_validate(e) ==
  IF e.scene_number < 1 THEN Fail("Scene number must be positive")
  ELSE IF IsBlank(e.location) THEN Fail("Location cannot be empty")
  ELSE IF TxtBlank(e.scene_description) THEN Fail("Scene description cannot be empty")
  ELSE IF e.characters = <<>>
       THEN FailAt("Scene must have at least one character", e.scene_number)
  ELSE Ok

RECURSIVE SortedSeq(_)
SortedSeq(S) ==
  IF S = {} THEN <<>>
  ELSE LET m == CHOOSE x \in S : \A y \in S : x <= y
       IN  << m >> \o SortedSeq(S \ {m})

Breakdown_validate(b) ==
  IF IsBlank(b.script_title) THEN Fail("Script title cannot be empty")
  ELSE IF b.entries = <<>> THEN Fail("Breakdown must have at least one entry")
  ELSE LET bad(e) == ~BreakdownEntry_validate(e).valid
           i == FirstIdx(b.entries, bad)
           scene_numbers == [k \in 1..Len(b.entries) |-> b.entries[k].scene_number]
       IN  IF i # 0 THEN BreakdownEntry_validate(b.entries[i])
           ELSE IF Len(scene_numbers) # Cardinality(Range(scene_numbers))
                THEN Fail("Duplicate scene numbers found in breakdown")
           ELSE IF Range(scene_numbers) # 1..Len(scene_numbers)
                THEN Fail("Scene numbers must be sequential starting from 1")
           ELSE Ok

(***************************************************************************)
(* generators/breakdown_generator.py                                       *)
(***************************************************************************)
\* the character names of the model, in the two iteration orders a Python
\* set of these strings is given (the order depends on the string hashes)
NameOrderA == << "Maya", "Alex", "Jordan", "Sam", "Elena", "Marcus", "Riley",
                 "Taylor", "Ghost", "   " >>

NameOrderB == << "   ", "Ghost", "Taylor", "Riley", "Marcus", "Elena", "Sam",
                 "Jordan", "Alex", "Maya" >>

HashOrders == {NameOrderA, NameOrderB}

\* list(set(...)): the members of S in the iteration order ord
RECURSIVE SetToList(_, _)
SetToList(S, ord) ==
  IF ord = <<>> THEN <<>>
  ELSE (IF ord[1] \in S THEN << ord[1] >> ELSE <<>>) \o SetToList(S, Tail(ord))

speakers(scene) == {scene.dialogues[k].character : k \in 1..Len(scene.dialogues)}

DescHas(scene, k) == k \in scene.description.kw

extract_props_description(scene) ==
  (IF DescHas(scene, "phone") \/ DescHas(scene, "mobile")
   THEN << ProductionElement("prop", "Mobile phone", 1, "None") >> ELSE <<>>)
  \o (IF DescHas(scene, "coffee") \/ DescHas(scene, "cup")
      THEN << ProductionElement("prop", "Coffee cup", 1, "None") >> ELSE <<>>)
  \o (IF DescHas(scene, "table")
      THEN << ProductionElement("prop", "Table", 1, "None") >> ELSE <<>>)
  \o (IF DescHas(scene, "chair")
      THEN << ProductionElement("prop", "Chair", 2, "None") >> ELSE <<>>)
  \o (IF DescHas(scene, "car") \/ DescHas(scene, "vehicle")
      THEN << ProductionElement("prop", "Vehicle", 1, "Requires driver/permit") >>
      ELSE <<>>)

\* the dialogue loop: one Beverage per line mentioning "drink" while no
\* Coffee cup is among the props
extract_props(scene) ==
  LET props == extract_props_description(scene)
      has_cup == \E i \in 1..Len(props) : props[i].description = "Coffee cup"
  IN  props \o Flatten([k \in 1..Len(scene.dialogues) |->
                 IF "drink" \in scene.dialogues[k].text.kw /\ ~has_cup
                 THEN << ProductionElement("prop", "Beverage", 1, "None") >>
                 ELSE <<>>])

extract_wardrobe(scene, characters) ==
  [i \in 1..Len(characters) |-> Costume(characters[i])]
  \o (IF DescHas(scene, "formal") \/ DescHas(scene, "suit")
      THEN << ProductionElement("wardrobe", "Formal attire", 1, "None") >> ELSE <<>>)
  \o (IF DescHas(scene, "uniform")
      THEN << ProductionElement("wardrobe", "Uniform", 1, "None") >> ELSE <<>>)

extract_makeup(scene) ==
  << ProductionElement("makeup", "Basic makeup", 1, "For all characters") >>
  \o (IF DescHas(scene, "blood") \/ DescHas(scene, "injury")
      THEN << ProductionElement("makeup", "Special effects makeup", 1,
                                "Injury/blood effects") >> ELSE <<>>)
  \o (IF DescHas(scene, "age") \/ DescHas(scene, "old")
      THEN << ProductionElement("makeup", "Aging makeup", 1, "None") >> ELSE <<>>)

extract_special_requirements(scene) ==
  (IF DescHas(scene, "stunt") \/ DescHas(scene, "fight")
   THEN << ProductionElement("sfx", "Stunt coordinator", 1, "Safety required") >>
   ELSE <<>>)
  \o (IF DescHas(scene, "explosion") \/ DescHas(scene, "fire")
      THEN << ProductionElement("sfx", "Pyrotechnics", 1,
                                "Permit and safety officer required") >> ELSE <<>>)
  \o (IF DescHas(scene, "rain") \/ DescHas(scene, "water")
      THEN << ProductionElement("sfx", "Water effects", 1, "None") >> ELSE <<>>)
  \o (IF DescHas(scene, "animal") \/ DescHas(scene, "dog") \/ DescHas(scene, "cat")
      THEN << ProductionElement("sfx", "Animal wrangler", 1,
                                "Trained animals required") >> ELSE <<>>)
  \o (IF DescHas(scene, "vfx") \/ DescHas(scene, "cgi") \/ DescHas(scene, "green screen")
      THEN << ProductionElement("sfx", "Visual effects", 1,
                                "Post-production VFX required") >> ELSE <<>>)

estimate_setup_time(scene) ==
  15 + (IF scene.interior_exterior = "EXT" THEN 10 ELSE 0)
     + (IF scene.time_of_day = "NIGHT" THEN 20 ELSE 0)
     + Cardinality(speakers(scene)) * 5

create_breakdown_entry(scene, ord) ==
  LET characters == SetToList(speakers(scene), ord)
  IN  [scene_number |-> scene.scene_number,
       scene_description |-> scene.description,
       location |-> scene.location,
       location_type |-> scene.interior_exterior,
       time_of_day |-> scene.time_of_day,
       characters |-> characters,
       props |-> extract_props(scene),
       wardrobe |-> extract_wardrobe(scene, characters),
       makeup |-> extract_makeup(scene),
       special_requirements |-> extract_special_requirements(scene),
       estimated_setup_time_minutes |-> estimate_setup_time(scene)]

\* the Breakdown returned for a script that passed script.validate(); the
\* caller decides on the raise (BreakdownGenerator_raises)
BreakdownGenerator_generate(script, ord) ==
  [script_title |-> script.title,
   entries |-> [i \in 1..Len(script.scenes) |->
                  create_breakdown_entry(script.scenes[i], ord)]]

BreakdownGenerator_raises(script) == ~Script_validate(script).valid

\* mutation: an entry without wardrobe elements is not reported
validate_against_script_ignores_wardrobe(breakdown, script) ==
  LET r == Breakdown_validate(breakdown)
      script_scene_numbers == {script.scenes[i].scene_number : i \in 1..Len(script.scenes)}
      breakdown_scene_numbers ==
        {breakdown.entries[i].scene_number : i \in 1..Len(breakdown.entries)}
      missing_scenes == script_scene_numbers \ breakdown_scene_numbers
      extra_scenes == breakdown_scene_numbers \ script_scene_numbers
      script_characters == {script.characters[i].name : i \in 1..Len(script.characters)}
      issues ==
        (IF Len(breakdown.entries) # Len(script.scenes)
         THEN << IssueL("Scene count mismatch",
                        << Len(script.scenes), Len(breakdown.entries) >>) >> ELSE <<>>)
        \o (IF missing_scenes # {}
            THEN << IssueL("Missing breakdown entries for scenes",
                           SortedSeq(missing_scenes)) >> ELSE <<>>)
        \o (IF extra_scenes # {}
            THEN << IssueL("Extra breakdown entries for non-existent scenes",
                           SortedSeq(extra_scenes)) >> ELSE <<>>)
        \o Flatten([i \in 1..Len(breakdown.entries) |->
              LET e == breakdown.entries[i]
              IN  Flatten([k \in 1..Len(e.characters) |->
                     IF e.characters[k] \notin script_characters
                     THEN << Issue("Character not in script character list",
                                   e.scene_number) >>
                     ELSE <<>>])])
        \o Flatten([i \in 1..Len(breakdown.entries) |->
              LET e == breakdown.entries[i]
              IN  (IF e.characters = <<>>
                   THEN << Issue("No characters listed", e.scene_number) >> ELSE <<>>)
                  \o <<>>])
  IN  IF ~r.valid
      THEN [valid |-> FALSE, issues |-> << Issue(r.error, r.scene) >>]
      ELSE [valid |-> issues = <<>>, issues |-> issues]

BreakdownValidator_validate_against_script(breakdown, script) ==
  LET r == Breakdown_validate(breakdown)
      script_scene_numbers == {script.scenes[i].scene_number : i \in 1..Len(script.scenes)}
      breakdown_scene_numbers ==
        {breakdown.entries[i].scene_number : i \in 1..Len(breakdown.entries)}
      missing_scenes == script_scene_numbers \ breakdown_scene_numbers
      extra_scenes == breakdown_scene_numbers \ script_scene_numbers
      script_characters == {script.characters[i].name : i \in 1..Len(script.characters)}
      issues ==
        (IF Len(breakdown.entries) # Len(script.scenes)
         THEN << IssueL("Scene count mismatch",
                        << Len(script.scenes), Len(breakdown.entries) >>) >> ELSE <<>>)
        \o (IF missing_scenes # {}
            THEN << IssueL("Missing breakdown entries for scenes",
                           SortedSeq(missing_scenes)) >> ELSE <<>>)
        \o (IF extra_scenes # {}
            THEN << IssueL("Extra breakdown entries for non-existent scenes",
                           SortedSeq(extra_scenes)) >> ELSE <<>>)
        \o Flatten([i \in 1..Len(breakdown.entries) |->
              LET e == breakdown.entries[i]
              IN  Flatten([k \in 1..Len(e.characters) |->
                     IF e.characters[k] \notin script_characters
                     THEN << Issue("Character not in script character list",
                                   e.scene_number) >>
                     ELSE <<>>])])
        \o Flatten([i \in 1..Len(breakdown.entries) |->
              LET e == breakdown.entries[i]
              IN  (IF e.characters = <<>>
                   THEN << Issue("No characters listed", e.scene_number) >> ELSE <<>>)
                  \o (IF e.wardrobe = <<>>
                      THEN << Issue("No wardrobe elements listed", e.scene_number) >>
                      ELSE <<>>)])
  IN  IF ~r.valid
      THEN [valid |-> FALSE, issues |-> << Issue(r.error, r.scene) >>]
      ELSE [valid |-> issues = <<>>, issues |-> issues]

(***************************************************************************)
(* models/storyboard.py                                                    *)
(***************************************************************************)
\* shot_id "<scene_number><letter>" is the pair << scene_number, letter >>;
\* a camera position or visual description is << wording, formatted-in name >>
Shot(id, n, size, pos, descr, dur, audio) ==
  [shot_id |-> id, scene_number |-> n, shot_size |-> size, camera_position |-> pos,
   camera_movement |-> "Static", visual_description |-> descr,
   suggested_duration_seconds |-> dur, audio_notes |-> audio]

Shot_validate(shot) ==
  IF IsBlank(shot.shot_id[2]) /\ shot.shot_id[1] = 0 THEN Fail("Shot ID cannot be empty")
  ELSE IF shot.scene_number < 1 THEN Fail("Scene number must be positive")
  ELSE IF IsBlank(shot.camera_position[1]) /\ IsBlank(shot.camera_position[2])
       THEN Fail("Camera position cannot be empty")
  ELSE IF IsBlank(shot.visual_description[1]) /\ IsBlank(shot.visual_description[2])
       THEN Fail("Visual description cannot be empty")
  ELSE IF shot.suggested_duration_seconds < 1 THEN Fail("Duration must be at least 1 second")
  ELSE Ok

Storyboard_get_total_duration(sb) ==
  SumSeq([i \in 1..Len(sb.shots) |-> sb.shots[i].suggested_duration_seconds])

\* abs(total - target) / target > 0.20 on integers; for a negative target
\* the quotient is negative or zero and never exceeds 0.20
deviates_20(total, target) ==
  IF target > 0 THEN 5 * Abs(total - target) > target ELSE FALSE

Storyboard_validate(sb) ==
  IF IsBlank(sb.script_title) THEN Fail("Script title cannot be empty")
  ELSE IF sb.shots = <<>> THEN Fail("Storyboard must have at least one shot")
  ELSE LET bad(x) == ~Shot_validate(x).valid
           i == FirstIdx(sb.shots, bad)
           shot_ids == [k \in 1..Len(sb.shots) |-> sb.shots[k].shot_id]
       IN  IF i # 0 THEN Shot_validate(sb.shots[i])
           ELSE IF Len(shot_ids) # Cardinality(Range(shot_ids))
                THEN Fail("Duplicate shot IDs found")
           ELSE IF deviates_20(Storyboard_get_total_duration(sb), sb.target_duration_seconds)
                THEN Fail("Total duration deviates more than 20% from target")
           ELSE Ok

\* the division by target_duration_seconds raises ZeroDivisionError when the
\* checks before it passed and the target is 0
Storyboard_validate_raises(sb) ==
  /\ ~IsBlank(sb.script_title)
  /\ sb.shots # <<>>
  /\ \A k \in 1..Len(sb.shots) : Shot_validate(sb.shots[k]).valid
  /\ \A j, k \in 1..Len(sb.shots) : sb.shots[j].shot_id = sb.shots[k].shot_id => j = k
  /\ sb.target_duration_seconds = 0

(***************************************************************************)
(* generators/storyboard_generator.py                                      *)
(***************************************************************************)
\* chr(64 + k): the capital letters, then the characters that follow "Z"
Letters == << "A", "B", "C", "D", "E", "F", "G", "H", "I", "J", "K", "L", "M", "N",
             "O", "P", "Q", "R", "S", "T", "U", "V", "W", "X", "Y", "Z", "[" >>

\* mutation: the scene's seconds divided among one shot too many
duration_per_shot_one_too_many(scene_duration, num_shots) ==
  Max(2, scene_duration \div (num_shots + 1))

\* duration of each shot of a regular scene
duration_per_shot_of(scene_duration, num_shots) == Max(2, scene_duration \div num_shots)

hook_shots(scene, script, scene_duration) ==
  LET n == scene.scene_number
      loc == scene.location
      d == scene.dialogues[1]
      est(pos, descr, dur) == Shot(<< n, "A" >>, n, "MS", << pos, "" >>,
                                   << descr, loc >>, dur, "None")
      react(pos, descr, dur) == Shot(<< n, "B" >>, n, "CU", << pos, d.character >>,
                                     << descr, d.character >>, dur, "Dialogue")
      withReaction(e, r) == IF scene.dialogues # <<>> THEN << e, r >> ELSE << e >>
  IN  IF Has(script.genre, "comedy")
      THEN withReaction(est("Eye level, centered on moment of chaos",
                            "Beat before disaster.", 1),
                        react("Tight on face for comedic timing",
                              "Hold for reaction.", 4))
      ELSE IF Has(script.genre, "drama")
      THEN withReaction(est("Eye level, emotional distance closing",
                            "Tension builds.", 2),
                        react("Close on, capturing vulnerability",
                              "Let emotion land.", 3))
      ELSE withReaction(est("Eye level, centered on action",
                            "Immediate visual impact.", 2),
                        react("Eye level, tight on face", "reacts", scene_duration - 2))

\* mutation: every dialogue shot is set up like the first one
regular_shots_no_variety(scene, script, scene_duration) ==
  LET n == scene.scene_number
      num_shots == 1 + Len(scene.dialogues)
      duration_per_shot == duration_per_shot_of(scene_duration, num_shots)
      establishing == Shot(<< n, "A" >>, n, "WS", << "Eye level, showing context", "" >>,
                           << "Wide", scene.location >>, duration_per_shot, "None")
      dialogue_shot(idx) ==
        LET d == scene.dialogues[idx + 1]
        IN  Shot(<< n, Letters[idx + 2] >>, n, "MS",
                 << "Medium shot, in frame", d.character >>,
                 << "line", d.character >>, duration_per_shot, "Dialogue")
      action_shot == Shot(<< n, "B" >>, n, "MS", << "Eye level, following action", "" >>,
                          << "Action", "" >>, scene_duration - duration_per_shot, "None")
  IN  IF scene.dialogues # <<>>
      THEN << establishing >> \o [k \in 1..Len(scene.dialogues) |-> dialogue_shot(k - 1)]
      ELSE << establishing, action_shot >>

regular_shots(scene, script, scene_duration) ==
  LET n == scene.scene_number
      num_shots == 1 + Len(scene.dialogues)
      duration_per_shot == duration_per_shot_of(scene_duration, num_shots)
      camera_note == IF Has(script.genre, "comedy")
                     THEN << "Eye level, Wide enough to capture physical comedy", "" >>
                     ELSE IF Has(script.genre, "drama")
                     THEN << "Eye level, Composed for emotional weight", "" >>
                     ELSE << "Eye level, showing context", scene.location >>
      establishing == Shot(<< n, "A" >>, n, "WS", camera_note,
                           << "Wide", scene.location >>, duration_per_shot, "None")
      dialogue_shot(idx) ==
        LET d == scene.dialogues[idx + 1]
            size == IF idx = 0 THEN "MS" ELSE IF idx % 2 = 1 THEN "CU" ELSE "MS"
            position == IF idx = 0 THEN "Medium shot, in frame"
                        ELSE IF idx % 2 = 1 THEN "Close-up on expression"
                        ELSE "Over-shoulder or medium on"
        IN  Shot(<< n, Letters[idx + 2] >>, n, size, << position, d.character >>,
                 << "line", d.character >>, duration_per_shot, "Dialogue")
      action_shot == Shot(<< n, "B" >>, n, "MS", << "Eye level, following action", "" >>,
                          << "Action", "" >>, scene_duration - duration_per_shot, "None")
  IN  IF scene.dialogues # <<>>
      THEN << establishing >> \o [k \in 1..Len(scene.dialogues) |-> dialogue_shot(k - 1)]
      ELSE << establishing, action_shot >>

\* mutation: the scene's own estimate is ignored for an even split
generate_shots_for_scene_even_split(scene, script) ==
  LET scene_duration == script.target_duration_seconds \div Len(script.scenes)
  IN  IF scene.is_hook THEN hook_shots(scene, script, scene_duration)
      ELSE regular_shots(scene, script, scene_duration)

generate_shots_for_scene(scene, script) ==
  LET scene_duration == OrElse(scene.estimated_duration_seconds,
                               script.target_duration_seconds \div Len(script.scenes))
  IN  IF scene.is_hook THEN hook_shots(scene, script, scene_duration)
      ELSE regular_shots(scene, script, scene_duration)

\* mutation: only the script is validated before the shots are built
StoryboardGenerator_raises_script_only(script, breakdown) ==
  ~Script_validate(script).valid

StoryboardGenerator_raises(script, breakdown) ==
  ~Script_validate(script).valid \/ ~Breakdown_validate(breakdown).valid

StoryboardGenerator_generate(script, breakdown) ==
  [script_title |-> script.title,
   target_duration_seconds |-> script.target_duration_seconds,
   shots |-> Flatten([i \in 1..Len(script.scenes) |->
                        generate_shots_for_scene(script.scenes[i], script)])]

\* mutation: the two shots are not required to belong to the same scene
jump_cut_issues_across_scenes(sb) ==
  Flatten([i \in 1..Len(sb.shots) |->
     IF i > 1
        /\ sb.shots[i-1].shot_size = sb.shots[i].shot_size
        /\ sb.shots[i-1].camera_position = sb.shots[i].camera_position
     THEN << IssueL("Potential jump cut (same size and position)",
                    << sb.shots[i-1].scene_number, sb.shots[i].scene_number >>) >>
     ELSE <<>>])

\* jump cuts: consecutive shots of one scene with equal size and position
jump_cut_issues(sb) ==
  Flatten([i \in 1..Len(sb.shots) |->
     IF i > 1 /\ sb.shots[i-1].scene_number = sb.shots[i].scene_number
        /\ sb.shots[i-1].shot_size = sb.shots[i].shot_size
        /\ sb.shots[i-1].camera_position = sb.shots[i].camera_position
     THEN << IssueL("Potential jump cut (same size and position)",
                    << sb.shots[i-1].scene_number, sb.shots[i].scene_number >>) >>
     ELSE <<>>])

coverage_issues(sb, script) ==
  Flatten([i \in 1..Len(script.scenes) |->
     LET n == script.scenes[i].scene_number
         count == Cardinality({k \in 1..Len(sb.shots) : sb.shots[k].scene_number = n})
     IN  IF count = 0 THEN << Issue("No shots defined", n) >>
         ELSE IF count < 2 THEN << Issue("Insufficient coverage (only 1 shot)", n) >>
         ELSE <<>>])

ContinuityChecker_check_continuity(sb, script) ==
  LET r == Storyboard_validate(sb)
      script_scene_numbers == {script.scenes[i].scene_number : i \in 1..Len(script.scenes)}
      issues ==
        Flatten([i \in 1..Len(sb.shots) |->
           IF sb.shots[i].scene_number \notin script_scene_numbers
           THEN << Issue("References non-existent scene", sb.shots[i].scene_number) >>
           ELSE <<>>])
        \o jump_cut_issues(sb)
        \o (IF deviates_20(Storyboard_get_total_duration(sb), sb.target_duration_seconds)
            THEN << Issue("Total duration exceeds 20% tolerance",
                          Storyboard_get_total_duration(sb)) >> ELSE <<>>)
        \o coverage_issues(sb, script)
  IN  IF ~r.valid
      THEN [valid |-> FALSE, issues |-> << Issue(r.error, r.scene) >>]
      ELSE [valid |-> issues = <<>>, issues |-> issues]

(***************************************************************************)
(* models/advisory.py                                                      *)
(***************************************************************************)
MinAdvisoryItems == 3

\* actionable_steps is kept as the number of steps; about and scenes are the
\* name and the scene numbers formatted into the description
AdvisoryItem(cat, prio, descr, about, scenes, steps) ==
  [category |-> cat, priority |-> prio, description |-> descr, about |-> about,
   scenes |-> scenes, actionable_steps |-> steps]

AdvisoryItem_validate(item) ==
  IF IsBlank(item.category) THEN Fail("Category cannot be empty")
  ELSE IF item.priority \notin {"HIGH", "MEDIUM", "LOW"} THEN Fail("Invalid priority")
  ELSE IF IsBlank(item.description) THEN Fail("Description cannot be empty")
  ELSE IF item.actionable_steps = 0
       THEN Fail("Advisory must have at least one actionable step")
  ELSE Ok

\* ProductionNotes.validate and PostProductionNotes.validate: the same
\* checks over the three lists a, b, c of the notes
Notes_validate(script_title, a, b, c, what) ==
  IF IsBlank(script_title) THEN Fail("Script title cannot be empty")
  ELSE IF Len(a) + Len(b) + Len(c) < MinAdvisoryItems
       THEN Fail(what)
  ELSE LET bad(x) == ~AdvisoryItem_validate(x).valid
           i == FirstIdx(a \o b \o c, bad)
       IN  IF i # 0 THEN AdvisoryItem_validate((a \o b \o c)[i]) ELSE Ok

ProductionNotes_validate(n) ==
  Notes_validate(n.script_title, n.continuity_risks, n.audio_recommendations,
                 n.coverage_suggestions,
                 "Production notes must have at least 3 actionable items")

PostProductionNotes_validate(n) ==
  Notes_validate(n.script_title, n.editing_suggestions, n.platform_guidelines,
                 n.revision_pitfalls,
                 "Post-production notes must have at least 3 actionable items")

(***************************************************************************)
(* generators/advisory_generator.py                                        *)
(***************************************************************************)
\* the keys of a dict filled while iterating s: first occurrences, in order
RECURSIVE Dedup(_)
Dedup(s) ==
  IF s = <<>> THEN <<>>
  ELSE LET init == Dedup(SubSeq(s, 1, Len(s) - 1))
       IN  IF s[Len(s)] \in Range(init) THEN init ELSE Append(init, s[Len(s)])

\* scene numbers of the entries that satisfy P, in entry order
ScenesWhere(breakdown, P(_)) ==
  Flatten([i \in 1..Len(breakdown.entries) |->
     IF P(breakdown.entries[i]) THEN << breakdown.entries[i].scene_number >> ELSE <<>>])

analyze_continuity_risks(script, breakdown) ==
  LET chars == Dedup(Flatten([i \in 1..Len(breakdown.entries) |->
                                 breakdown.entries[i].characters]))
      props == Dedup(Flatten([i \in 1..Len(breakdown.entries) |->
                 [k \in 1..Len(breakdown.entries[i].props) |->
                    breakdown.entries[i].props[k].description]]))
      charOccurrences(c) ==
        Flatten([i \in 1..Len(breakdown.entries) |->
           Flatten([k \in 1..Len(breakdown.entries[i].characters) |->
              IF breakdown.entries[i].characters[k] = c
              THEN << breakdown.entries[i].scene_number >> ELSE <<>>])])
      propOccurrences(p) ==
        Flatten([i \in 1..Len(breakdown.entries) |->
           Flatten([k \in 1..Len(breakdown.entries[i].props) |->
              IF breakdown.entries[i].props[k].description = p
              THEN << breakdown.entries[i].scene_number >> ELSE <<>>])])
      location_changes ==
        \E i \in 2..Len(breakdown.entries) :
           \/ breakdown.entries[i].location # breakdown.entries[i-1].location
           \/ breakdown.entries[i].time_of_day # breakdown.entries[i-1].time_of_day
  IN  Flatten([i \in 1..Len(chars) |->
         IF Len(charOccurrences(chars[i])) > 1
         THEN << AdvisoryItem("continuity", "HIGH", "Wardrobe continuity across scenes",
                              chars[i], charOccurrences(chars[i]), 3) >>
         ELSE <<>>])
      \o Flatten([i \in 1..Len(props) |->
            IF Len(propOccurrences(props[i])) > 1
            THEN << AdvisoryItem("continuity", "MEDIUM",
                                 "Prop continuity: appears in multiple scenes",
                                 props[i], <<>>, 3) >>
            ELSE <<>>])
      \o (IF location_changes
          THEN << AdvisoryItem("continuity", "MEDIUM",
                               "Location/time transitions require careful continuity",
                               "", <<>>, 3) >>
          ELSE <<>>)

generate_audio_recommendations(script, breakdown) ==
  LET has_dialogue == \E i \in 1..Len(script.scenes) : script.scenes[i].dialogues # <<>>
      isExt(e) == e.location_type = "EXT"
      ext == ScenesWhere(breakdown, isExt)
  IN  (IF has_dialogue
       THEN << AdvisoryItem("audio", "HIGH", "Dialogue recording and backup",
                            "", <<>>, 4) >> ELSE <<>>)
      \o (IF ext # <<>>
          THEN << AdvisoryItem("audio", "MEDIUM", "Exterior audio challenges for Scene",
                               "", << ext[1] >>, 4) >> ELSE <<>>)
      \o << AdvisoryItem("audio", "MEDIUM", "Audio coverage and wild sound", "", <<>>, 4) >>

generate_coverage_suggestions(script, storyboard) ==
  LET scene_nums == Dedup([i \in 1..Len(storyboard.shots) |->
                             storyboard.shots[i].scene_number])
      shot_count(n) == Cardinality({k \in 1..Len(storyboard.shots) :
                                       storyboard.shots[k].scene_number = n})
  IN  << AdvisoryItem("coverage", "HIGH", "B-roll and cutaway coverage", "", <<>>, 4) >>
      \o Flatten([i \in 1..Len(scene_nums) |->
            IF shot_count(scene_nums[i]) < 3
            THEN << AdvisoryItem("coverage", "MEDIUM", "Scene has limited coverage",
                                 "", << scene_nums[i], shot_count(scene_nums[i]) >>, 3) >>
            ELSE <<>>])
      \o << AdvisoryItem("coverage", "MEDIUM", "Safety coverage and protection shots",
                         "", <<>>, 4) >>

ProductionAdvisoryGenerator_generate(script, breakdown, storyboard) ==
  [script_title |-> script.title,
   continuity_risks |-> analyze_continuity_risks(script, breakdown),
   audio_recommendations |-> generate_audio_recommendations(script, breakdown),
   coverage_suggestions |-> generate_coverage_suggestions(script, storyboard)]

ShortFormSeconds == 60

generate_editing_suggestions(script) ==
  (IF script.scenes # <<>> /\ script.scenes[1].is_hook
   THEN << AdvisoryItem("editing", "HIGH", "Hook optimization for retention",
                        "", <<>>, 4) >> ELSE <<>>)
  \o (IF script.target_duration_seconds <= ShortFormSeconds
      THEN << AdvisoryItem("editing", "HIGH", "Short-form pacing and rhythm",
                           "", <<>>, 4) >> ELSE <<>>)
  \o << AdvisoryItem("editing", "MEDIUM", "Scene transitions and flow", "", <<>>, 4) >>

generate_platform_guidelines(script) ==
  (IF script.platform \in {"tiktok", "instagram_reels"}
   THEN << AdvisoryItem("platform", "HIGH", "vertical format optimization",
                        script.platform, <<>>, 4) >> ELSE <<>>)
  \o << AdvisoryItem("platform", "HIGH", "Subtitles and captions for accessibility",
                     "", <<>>, 4),
        AdvisoryItem("platform", "MEDIUM", "Sound design and music", "", <<>>, 4),
        AdvisoryItem("platform", "MEDIUM", "Color grading for mobile viewing",
                     "", <<>>, 4) >>

\* mutation: the first pitfall comes without any actionable step
generate_revision_pitfalls_without_steps(script) ==
  << AdvisoryItem("revision", "MEDIUM", "Over-editing and loss of natural flow",
                  "", <<>>, 0),
     AdvisoryItem("revision", "HIGH", "Audio quality and consistency", "", <<>>, 4),
     AdvisoryItem("revision", "MEDIUM", "Pacing and retention issues", "", <<>>, 4) >>

generate_revision_pitfalls(script) ==
  << AdvisoryItem("revision", "MEDIUM", "Over-editing and loss of natural flow",
                  "", <<>>, 4),
     AdvisoryItem("revision", "HIGH", "Audio quality and consistency", "", <<>>, 4),
     AdvisoryItem("revision", "MEDIUM", "Pacing and retention issues", "", <<>>, 4) >>

PostProductionAdvisoryGenerator_generate(script, storyboard) ==
  [script_title |-> script.title,
   editing_suggestions |-> generate_editing_suggestions(script),
   platform_guidelines |-> generate_platform_guidelines(script),
   revision_pitfalls |-> generate_revision_pitfalls(script)]

(***************************************************************************)
(* workflow/entertainment_workflow.py : one call of execute_full_workflow  *)
(***************************************************************************)
VARIABLES
  pc,                \* the statement execute_full_workflow is about to run
  brief,             \* the arguments of the call
  script, breakdown, storyboard, production_notes, postprod_notes,  \* locals
  valid, issues,     \* result of the last validator call
  self_check,        \* result of a direct Script.validate() call
  errors,            \* the errors list
  output_files,      \* the output_files dict, as its keys in insertion order
  dir_exists,        \* the output directory exists
  files,             \* the artifact files present in the output directory
  success,           \* the first component of the returned tuple
  trace,             \* history: generator calls, gates and writes run so far
  passed,            \* history: the gates that returned valid
  hash_order,        \* the iteration order of string sets in this interpreter
  current_iteration, \* LoopController.current_iteration
  state_file,        \* the state file: None, or Some(its lines)
  report_file,       \* the report file: None, or Some(the report)
  loop_i,            \* the i of run_loop
  max_iterations,    \* the argument of run_loop
  loop_result,       \* what the last LoopController call returned
  successes          \* history: execute_iteration calls that returned success

vars == << pc, brief, script, breakdown, storyboard, production_notes, postprod_notes,
           valid, issues, self_check, errors, output_files, dir_exists, files,
           success, trace, passed, hash_order, current_iteration, state_file,
           report_file, loop_i, max_iterations, loop_result, successes >>

\* the loop controller, its files and its history
loop == << current_iteration, state_file, report_file, loop_i, max_iterations,
           loop_result, successes >>

\* no LoopController was made
NoLoop ==
  /\ current_iteration = 0 /\ state_file = None /\ report_file = None
  /\ loop_i = 0 /\ max_iterations = 0 /\ loop_result = None /\ successes = 0

Titles == {"Test Drama", "   "}

Audiences == {"Adults", ""}

Briefs == [title : Titles, genre : Genres, platform : Platforms,
           target_duration_seconds : (0 - BelowZero)..MaxTarget,
           target_audience : Audiences]

\* "not yet assigned"
Unset == <<>>

Init ==
  /\ pc = "generate_script"
  /\ brief \in Briefs
  /\ script = Unset /\ breakdown = Unset /\ storyboard = Unset
  /\ production_notes = Unset /\ postprod_notes = Unset
  /\ valid = TRUE /\ issues = <<>> /\ self_check = Ok
  /\ errors = <<>> /\ output_files = <<>>
  /\ dir_exists = FALSE /\ files = {}
  /\ success = FALSE
  /\ trace = <<>>
  /\ passed = {}
  /\ hash_order = NameOrderA /\ NoLoop

locals == << script, breakdown, storyboard, production_notes, postprod_notes >>

disk == << dir_exists, files >>

\* mutation: the issues of the failed gate are not added to errors
ReturnFailure_drops_issues(found) ==
  /\ errors' = errors
  /\ success' = FALSE
  /\ pc' = "done"

\* "return False, errors, output_files" after a failed gate
ReturnFailure(found) ==
  /\ errors' = errors \o found
  /\ success' = FALSE
  /\ pc' = "done"

\* the except branch: errors.append("Workflow error: ..."); return False, ...
Raise ==
  /\ errors' = Append(errors, Issue("Workflow error", 0))
  /\ success' = FALSE
  /\ pc' = "done"

\* mutation: output_files[key] is set before write_text is attempted
WriteText_records_first(step, key, next) ==
  /\ pc = step
  /\ trace' = Append(trace, step)
  /\ output_files' = Append(output_files, key)
  /\ \/ /\ files' = files \cup {key}
        /\ pc' = next
        /\ UNCHANGED << errors, success >>
     \/ /\ files' \in {files, files \cup {key}}
        /\ Raise
  /\ UNCHANGED << brief, loop, hash_order, locals, valid, issues, self_check, dir_exists, passed >>

\* path.write_text(...) followed by output_files[key] = str(path); a write
\* that raises may leave a partial file behind and records nothing
WriteText(step, key, next) ==
  /\ pc = step
  /\ trace' = Append(trace, step)
  /\ \/ /\ files' = files \cup {key}
        /\ output_files' = Append(output_files, key)
        /\ pc' = next
        /\ UNCHANGED << errors, success >>
     \/ /\ files' \in {files, files \cup {key}}
        /\ UNCHANGED output_files
        /\ Raise
  /\ UNCHANGED << brief, loop, hash_order, locals, valid, issues, self_check, dir_exists, passed >>

\* mutation: a failed gate records its issues and carries on
Gate_no_return(step, r, next) ==
  /\ pc = step
  /\ trace' = Append(trace, step)
  /\ valid' = r.valid
  /\ issues' = r.issues
  /\ errors' = errors \o r.issues
  /\ pc' = next
  /\ passed' = IF r.valid THEN passed \cup {step} ELSE passed
  /\ UNCHANGED << brief, loop, hash_order, locals, self_check, output_files, disk, success >>

\* a validation gate: "if not valid: errors.extend(issues); return False, ..."
Gate(step, r, next) ==
  /\ pc = step
  /\ trace' = Append(trace, step)
  /\ valid' = r.valid
  /\ issues' = r.issues
  /\ IF ~r.valid
     THEN ReturnFailure(r.issues) /\ UNCHANGED passed
     ELSE pc' = next /\ passed' = passed \cup {step} /\ UNCHANGED << errors, success >>
  /\ UNCHANGED << brief, loop, hash_order, locals, self_check, output_files, disk >>

GenerateScript ==
  /\ pc = "generate_script"
  /\ trace' = Append(trace, "generate_script")
  /\ script' = ScriptGenerator_generate(brief.title, brief.genre, brief.platform,
                                        brief.target_duration_seconds,
                                        brief.target_audience)
  /\ pc' = "validate_script"
  /\ UNCHANGED << brief, loop, hash_order, breakdown, storyboard, production_notes, postprod_notes,
                  valid, issues, self_check, errors, output_files, disk, success, passed >>

\* mutation: the script is saved before its gate is consulted
ValidateScript_saves_first ==
  /\ pc = "validate_script"
  /\ trace' = Append(trace, "validate_script")
  /\ LET r == ScriptValidator_validate_for_production(script)
     IN  /\ valid' = r.valid
         /\ issues' = r.issues
         /\ dir_exists' = TRUE
         /\ files' = files \cup {"script"}
         /\ output_files' = Append(output_files, "script")
         /\ IF ~r.valid
            THEN ReturnFailure(r.issues) /\ UNCHANGED passed
            ELSE /\ pc' = "generate_breakdown"
                 /\ passed' = passed \cup {"validate_script"}
                 /\ UNCHANGED << errors, success >>
  /\ UNCHANGED << brief, loop, hash_order, locals, self_check >>

ValidateScript ==
  Gate("validate_script", ScriptValidator_validate_for_production(script), "mkdir")

\* output_path.mkdir(parents=True, exist_ok=True)
MakeOutputDir ==
  /\ pc = "mkdir"
  /\ trace' = Append(trace, "mkdir")
  /\ \/ /\ dir_exists' = TRUE
        /\ pc' = "write_script"
        /\ UNCHANGED << errors, success >>
     \/ /\ UNCHANGED dir_exists
        /\ Raise
  /\ UNCHANGED << brief, loop, hash_order, locals, valid, issues, self_check, output_files, files, passed >>

SaveScript == WriteText("write_script", "script", "generate_breakdown")

GenerateBreakdown ==
  /\ pc = "generate_breakdown"
  /\ trace' = Append(trace, "generate_breakdown")
  /\ IF BreakdownGenerator_raises(script)
     THEN Raise /\ UNCHANGED breakdown
     ELSE /\ \E ord \in HashOrders : breakdown' = BreakdownGenerator_generate(script, ord)
          /\ pc' = "validate_breakdown"
          /\ UNCHANGED << errors, success >>
  /\ UNCHANGED << brief, loop, hash_order, script, storyboard, production_notes, postprod_notes,
                  valid, issues, self_check, output_files, disk, passed >>

ValidateBreakdown ==
  Gate("validate_breakdown",
       BreakdownValidator_validate_against_script(breakdown, script),
       "write_breakdown_json")

SaveBreakdownJson == WriteText("write_breakdown_json", "breakdown_json", "write_breakdown_csv")

SaveBreakdownCsv == WriteText("write_breakdown_csv", "breakdown_csv", "generate_storyboard")

\* mutation: the generator empties the scene list of the Script it reads
GenerateStoryboard_drains_script ==
  /\ pc = "generate_storyboard"
  /\ trace' = Append(trace, "generate_storyboard")
  /\ IF StoryboardGenerator_raises(script, breakdown)
     THEN Raise /\ UNCHANGED << script, storyboard >>
     ELSE /\ storyboard' = StoryboardGenerator_generate(script, breakdown)
          /\ script' = [script EXCEPT !.scenes = <<>>]
          /\ pc' = "check_continuity"
          /\ UNCHANGED << errors, success >>
  /\ UNCHANGED << brief, loop, hash_order, breakdown, production_notes, postprod_notes,
                  valid, issues, self_check, output_files, disk, passed >>

GenerateStoryboard ==
  /\ pc = "generate_storyboard"
  /\ trace' = Append(trace, "generate_storyboard")
  /\ IF StoryboardGenerator_raises(script, breakdown)
     THEN Raise /\ UNCHANGED storyboard
     ELSE /\ storyboard' = StoryboardGenerator_generate(script, breakdown)
          /\ pc' = "check_continuity"
          /\ UNCHANGED << errors, success >>
  /\ UNCHANGED << brief, loop, hash_order, script, breakdown, production_notes, postprod_notes,
                  valid, issues, self_check, output_files, disk, passed >>

\* check_continuity raises when storyboard.validate() divides by a zero target
CheckContinuity ==
  IF pc = "check_continuity" /\ Storyboard_validate_raises(storyboard)
  THEN /\ trace' = Append(trace, "check_continuity")
       /\ Raise
       /\ UNCHANGED << brief, loop, hash_order, locals, valid, issues, self_check, output_files, disk, passed >>
  ELSE Gate("check_continuity",
            ContinuityChecker_check_continuity(storyboard, script),
            "write_storyboard")

SaveStoryboard == WriteText("write_storyboard", "storyboard", "write_shotlist")

SaveShotlist == WriteText("write_shotlist", "shotlist", "generate_production_notes")

GenerateProductionNotes ==
  /\ pc = "generate_production_notes"
  /\ trace' = Append(trace, "generate_production_notes")
  /\ production_notes' = ProductionAdvisoryGenerator_generate(script, breakdown, storyboard)
  /\ pc' = "validate_production_notes"
  /\ UNCHANGED << brief, loop, hash_order, script, breakdown, storyboard, postprod_notes,
                  valid, issues, self_check, errors, output_files, disk, success, passed >>

\* "valid, error = notes.validate(); if not valid: errors.append(error)"
NotesGate(r) == [valid |-> r.valid,
                 issues |-> IF r.valid THEN <<>> ELSE << Issue(r.error, r.scene) >>]

ValidateProductionNotes ==
  Gate("validate_production_notes",
       NotesGate(ProductionNotes_validate(production_notes)),
       "write_production_notes")

SaveProductionNotes ==
  WriteText("write_production_notes", "production_notes", "generate_postprod_notes")

GeneratePostprodNotes ==
  /\ pc = "generate_postprod_notes"
  /\ trace' = Append(trace, "generate_postprod_notes")
  /\ postprod_notes' = PostProductionAdvisoryGenerator_generate(script, storyboard)
  /\ pc' = "validate_postprod_notes"
  /\ UNCHANGED << brief, loop, hash_order, script, breakdown, storyboard, production_notes,
                  valid, issues, self_check, errors, output_files, disk, success, passed >>

ValidatePostprodNotes ==
  Gate("validate_postprod_notes",
       NotesGate(PostProductionNotes_validate(postprod_notes)),
       "write_postprod_notes")

SavePostprodNotes ==
  WriteText("write_postprod_notes", "postproduction_notes", "return_success")

\* "return True, errors, output_files"
ReturnSuccess ==
  /\ pc = "return_success"
  /\ success' = TRUE
  /\ pc' = "done"
  /\ UNCHANGED << brief, loop, hash_order, locals, valid, issues, self_check, errors, output_files,
                  disk, trace, passed >>

Next ==
  \/ GenerateScript
  \/ ValidateScript
  \/ MakeOutputDir
  \/ SaveScript
  \/ GenerateBreakdown
  \/ ValidateBreakdown
  \/ SaveBreakdownJson
  \/ SaveBreakdownCsv
  \/ GenerateStoryboard
  \/ CheckContinuity
  \/ SaveStoryboard
  \/ SaveShotlist
  \/ GenerateProductionNotes
  \/ ValidateProductionNotes
  \/ SaveProductionNotes
  \/ GeneratePostprodNotes
  \/ ValidatePostprodNotes
  \/ SavePostprodNotes
  \/ ReturnSuccess

Spec == Init /\ [][Next]_vars

(***************************************************************************)
(* Script.validate and ScriptValidator.validate_for_production applied to  *)
(* hand-made Script values (the dataclasses accept any field values)       *)
(***************************************************************************)
ShortText == Txt(8, 40, {})

\* 51 words, within the 500-character limit
LongText == Txt(51, 300, {})

\* more than 500 characters in few words
HugeText == Txt(7, 501, {})

BlankText == Txt(0, 3, {})

\* estimated durations tried per scene: with the target 60 their sums reach
\* both 30% boundaries (42 and 78) exactly, and cross them
Durations == {None, Some(-3), Some(21), Some(22), Some(39), Some(40)}

HandTarget == 60

DialogueChoices == { <<>>, << Dialogue("Elena", ShortText, "None") >>,
                     << Dialogue("Elena", LongText, "None") >> }

HandScene(n, hook, est, dlgs) ==
  Scene(n, "Train Station Platform", "DAY", "INT", Txt(9, 48, {}), dlgs, est, hook)

HandScript(scenes) ==
  [title |-> "Test Drama", genre |-> "Drama", platform |-> "tiktok",
   target_duration_seconds |-> HandTarget, target_audience |-> "Adults",
   characters |-> << Character("Elena", "Determined protagonist", "25-35") >>,
   scenes |-> scenes, cost_flags |-> <<>>]

Defects == {"none", "blank_title", "blank_genre", "target_low", "target_high",
            "blank_audience", "blank_character_name", "blank_location",
            "bad_time_of_day", "bad_interior_exterior", "blank_speaker",
            "blank_text", "huge_text", "undeclared_speaker"}

\* the script with one field spoiled; scene defects go to the first scene
WithDefect(sc, d) ==
  LET first(f, v) == IF sc.scenes = <<>> THEN sc
                     ELSE [sc EXCEPT !.scenes[1] = [sc.scenes[1] EXCEPT ![f] = v]]
      line(c, t) == first("dialogues", << Dialogue(c, t, "None") >>)
  IN  CASE d = "blank_title"           -> [sc EXCEPT !.title = "   "]
        [] d = "blank_genre"           -> [sc EXCEPT !.genre = ""]
        [] d = "target_low"            -> [sc EXCEPT !.target_duration_seconds = MinDuration - 1]
        [] d = "target_high"           -> [sc EXCEPT !.target_duration_seconds = MaxDuration + 1]
        [] d = "blank_audience"        -> [sc EXCEPT !.target_audience = ""]
        [] d = "blank_character_name"  ->
             [sc EXCEPT !.characters = Append(sc.characters, Character("   ", "None", "None"))]
        [] d = "blank_location"        -> first("location", "")
        [] d = "bad_time_of_day"       -> first("time_of_day", "NOON")
        [] d = "bad_interior_exterior" -> first("interior_exterior", "INT/EXT")
        [] d = "blank_speaker"         -> line("   ", ShortText)
        [] d = "blank_text"            -> line("Elena", BlankText)
        [] d = "huge_text"             -> line("Elena", HugeText)
        [] d = "undeclared_speaker"    -> line("Ghost", ShortText)
        [] OTHER                       -> sc

\* any scene numbers and hook flags, with or without one defect
IsNumberingScript(sc) ==
  \E n \in 0..MaxScenes :
    \E num \in [1..n -> 0..(MaxScenes + 1)], hook \in [1..n -> BOOLEAN], d \in Defects :
      sc = WithDefect(HandScript([i \in 1..n |->
              HandScene(num[i], hook[i], None,
                        << Dialogue("Elena", ShortText, "None") >>)]), d)

\* scenes numbered 1..n with the hook first, any estimated durations and
\* dialogue lengths, the script-level fields valid or not
IsProductionScript(sc) ==
  \E n \in 1..MaxScenes :
    \E est \in [1..n -> Durations], dlg \in [1..n -> DialogueChoices],
       d \in {"none", "blank_title", "target_high"} :
      sc = WithDefect(HandScript([i \in 1..n |-> HandScene(i, i = 1, est[i], dlg[i])]), d)

InitScript ==
  /\ pc = "script_made"
  /\ (IsNumberingScript(script) \/ IsProductionScript(script))
  /\ brief = Unset /\ breakdown = Unset /\ storyboard = Unset
  /\ production_notes = Unset /\ postprod_notes = Unset
  /\ valid = TRUE /\ issues = <<>> /\ self_check = Ok
  /\ errors = <<>> /\ output_files = <<>>
  /\ dir_exists = FALSE /\ files = {}
  /\ success = FALSE
  /\ trace = <<>>
  /\ passed = {}
  /\ hash_order = NameOrderA /\ NoLoop

\* valid, error = script.validate()
CallScriptValidate ==
  /\ pc = "script_made"
  /\ self_check' = Script_validate(script)
  /\ pc' = "self_checked"
  /\ UNCHANGED << brief, loop, hash_order, locals, valid, issues, errors, output_files, disk, success,
                  trace, passed >>

\* valid, issues = ScriptValidator().validate_for_production(script)
CallValidateForProduction ==
  /\ pc = "self_checked"
  /\ LET r == ScriptValidator_validate_for_production(script)
     IN  valid' = r.valid /\ issues' = r.issues
  /\ pc' = "validated"
  /\ UNCHANGED << brief, loop, hash_order, locals, self_check, errors, output_files, disk, success,
                  trace, passed >>

NextScript == CallScriptValidate \/ CallValidateForProduction

SpecScript == InitScript /\ [][NextScript]_vars

(***************************************************************************)
(* Properties of execute_full_workflow (checked under Spec)                *)
(***************************************************************************)
StageOrder ==
  << "generate_script", "validate_script", "mkdir", "write_script",
     "generate_breakdown", "validate_breakdown", "write_breakdown_json",
     "write_breakdown_csv",
     "generate_storyboard", "check_continuity", "write_storyboard", "write_shotlist",
     "generate_production_notes", "validate_production_notes", "write_production_notes",
     "generate_postprod_notes", "validate_postprod_notes", "write_postprod_notes" >>

FiveGates == {"validate_script", "validate_breakdown", "check_continuity",
              "validate_production_notes", "validate_postprod_notes"}

WriteSteps == {"mkdir", "write_script", "write_breakdown_json", "write_breakdown_csv",
               "write_storyboard", "write_shotlist", "write_production_notes",
               "write_postprod_notes"}

SevenKeys == << "script", "breakdown_json", "breakdown_csv", "storyboard", "shotlist",
                "production_notes", "postproduction_notes" >>

IsPrefix(s, t) == Len(s) <= Len(t) /\ s = SubSeq(t, 1, Len(s))

LastStep == IF trace = <<>> THEN "none" ELSE trace[Len(trace)]

\* the call returned because the gate it ran last said "not valid"
StoppedAtGate == pc = "done" /\ ~valid

ValidBrief ==
  /\ ~IsBlank(brief.title) /\ ~IsBlank(brief.genre) /\ ~IsBlank(brief.target_audience)
  /\ brief.target_duration_seconds \in MinDuration..MaxDuration

\* C1: the steps run are always an initial part of the fixed order
\* generate-script, script gate, save, generate-breakdown, breakdown gate,
\* save, ... (every generator directly followed by its gate); the moment
\* errors is non-empty (a gate failed or a step raised) the call has returned
\* success=false, and from then on no generator, gate or write runs and no
\* file or output_files entry changes; a call that returned false has errors.
C1_StagesInOrderStopAtFirstFailure ==
  /\ [](IsPrefix(trace, StageOrder))
  /\ [](errors # <<>> => pc = "done" /\ ~success)
  /\ []((pc = "done" /\ ~success) => errors # <<>>)
  /\ [][errors # <<>> =>
          trace' = trace /\ files' = files /\ output_files' = output_files]_vars

\* a write of stage 3 raised: stages 4 and 5 never ran
C1_Witness ==
  /\ pc = "done" /\ ~success /\ errors # <<>>
  /\ LastStep = "write_storyboard"

ExpectedOutputs(gate) ==
  CASE gate = "validate_script"           -> <<>>
    [] gate = "validate_breakdown"        -> SubSeq(SevenKeys, 1, 1)
    [] gate = "check_continuity"          -> SubSeq(SevenKeys, 1, 3)
    [] gate = "validate_production_notes" -> SubSeq(SevenKeys, 1, 5)
    [] gate = "validate_postprod_notes"   -> SubSeq(SevenKeys, 1, 6)
    [] OTHER                              -> << "no such gate" >>

\* C2: when the call stopped at the failed gate of stage k, output_files
\* holds exactly the artifacts of stages 1..k-1, each of them exists, and
\* nothing else (in particular no artifact of stage k) is in the directory.
C2_FailedGateKeepsEarlierArtifactsOnly ==
  StoppedAtGate =>
    /\ LastStep \in FiveGates
    /\ output_files = ExpectedOutputs(LastStep)
    /\ Range(output_files) \subseteq files
    /\ files \subseteq Range(output_files)

C2_Witness ==
  /\ StoppedAtGate /\ LastStep = "validate_script"
  /\ output_files = <<>> /\ files = {}

\* C3: a call that returned true passed all five gates, has no errors and
\* exactly the seven keys; a call that returned false has fewer than seven.
C3_SuccessIffAllGatesAndSevenFiles ==
  pc = "done" =>
    /\ success => /\ passed = FiveGates
                  /\ errors = <<>>
                  /\ output_files = SevenKeys
    /\ ~success => Len(output_files) < Len(SevenKeys)

C3_Witness == pc = "done" /\ success /\ Len(output_files) = 7

\* C4: for a valid brief no gate ever says "not valid", and the call can only
\* end in success with the seven files on disk, unless a file operation
\* (mkdir or a write) raised.
C4_ValidBriefPassesAllGates ==
  ValidBrief =>
    /\ valid
    /\ pc = "done" =>
         \/ /\ success
            /\ output_files = SevenKeys
            /\ Range(SevenKeys) \subseteq files
         \/ /\ ~success
            /\ LastStep \in WriteSteps

C4_Witness ==
  /\ pc = "done" /\ success /\ brief.genre = "Horror"
  /\ brief.target_duration_seconds = MinDuration
  /\ Range(SevenKeys) \subseteq files

StructuralErrors == {"Title cannot be empty", "Genre cannot be empty",
                     "Target duration must be between 30-120 seconds",
                     "Target audience cannot be empty"}

\* C5: for an invalid brief the generator still returns a Script, the script
\* gate rejects it and the call returns (false, [one structural error], {});
\* the output directory is never created and no file is written.
C5_InvalidBriefRejectedAtScriptGate ==
  ~ValidBrief =>
    /\ ~dir_exists /\ files = {} /\ output_files = <<>>
    /\ IsPrefix(trace, SubSeq(StageOrder, 1, 2))
    /\ pc = "done" =>
         /\ script # Unset
         /\ trace = SubSeq(StageOrder, 1, 2)
         /\ ~success /\ ~valid
         /\ Len(errors) = 1
         /\ errors[1].msg \in StructuralErrors

C5_Witness ==
  /\ pc = "done" /\ brief.target_duration_seconds = MaxDuration + 1
  /\ Len(errors) = 1 /\ ~dir_exists

(***************************************************************************)
(* Properties of ScriptGenerator.generate (checked under Spec, where every *)
(* brief, valid or not, gets its Script generated)                         *)
(***************************************************************************)
\* C6: in a generated Script the first scene is the hook, no other scene is
\* a hook, and the scene numbers in list order are 1..len(scenes).
C6_GeneratedHookFirstAndNumbered ==
  script # Unset =>
    /\ script.scenes[1].is_hook
    /\ \A i \in 2..Len(script.scenes) : ~script.scenes[i].is_hook
    /\ \A i \in 1..Len(script.scenes) : script.scenes[i].scene_number = i

C6_Witness ==
  /\ script # Unset /\ Len(script.scenes) = 3
  /\ script.scenes[3].scene_number = 3 /\ brief.genre = "Thriller"

EstimateOf(scene) == scene.estimated_duration_seconds[1]

\* C7: hook 5 s; a development scene exactly when target >= 45, of
\* floor((target-5)/2) s; the resolution scene gets the rest; the estimates
\* sum to the target; 2 scenes below 45 and 3 from 45 on, so no larger target
\* yields fewer scenes.
C7_DurationAllocation ==
  script # Unset =>
    LET t == script.target_duration_seconds
        n == Len(script.scenes)
    IN  /\ \A i \in 1..n : script.scenes[i].estimated_duration_seconds # None
        /\ EstimateOf(script.scenes[1]) = 5
        /\ n = IF t < 45 THEN 2 ELSE 3
        /\ n = 3 => EstimateOf(script.scenes[2]) = (t - 5) \div 2
        /\ EstimateOf(script.scenes[n]) =
             t - 5 - (IF n = 3 THEN EstimateOf(script.scenes[2]) ELSE 0)
        /\ SumSeq([i \in 1..n |-> EstimateOf(script.scenes[i])]) = t
        /\ Len(generate_scenes(script.genre, t + 1, script.characters)) >= n

C7_Witness ==
  /\ script # Unset /\ script.target_duration_seconds = 45
  /\ Len(script.scenes) = 3 /\ EstimateOf(script.scenes[2]) = 20
  /\ EstimateOf(script.scenes[3]) = 20

(***************************************************************************)
(* Properties of Script.validate and ScriptValidator (checked under        *)
(* SpecScript, on hand-made Script values)                                 *)
(***************************************************************************)
SceneNumbers(sc) == [i \in 1..Len(sc.scenes) |-> sc.scenes[i].scene_number]

\* C8: every Script accepted by Script.validate (and so every Script accepted
\* by validate_for_production) has scene numbers that are positive, unique
\* and sequential from 1: exactly 1..N for its N scenes.
C8_AcceptedScriptsNumberedFrom1 ==
  (pc = "validated" /\ self_check.valid) =>
    /\ \A i \in 1..Len(script.scenes) : script.scenes[i].scene_number >= 1
    /\ Cardinality(Range(SceneNumbers(script))) = Len(script.scenes)
    /\ Range(SceneNumbers(script)) = 1..Len(script.scenes)

IsTooLong(i) == i.msg = "Dialogue too long (>50 words may not be conversational)"

IsDuration(i) == i.msg = "Total estimated duration deviates significantly from target"

\* the (scene, line) positions of the dialogues of more than 50 words
LongLines(sc) ==
  UNION { { << i, k >> : k \in {j \in 1..Len(sc.scenes[i].dialogues) :
                                   sc.scenes[i].dialogues[j].text.words > 50} } :
          i \in 1..Len(sc.scenes) }

\* the sum of the estimates, a scene without one counting as 0
EstimateSum(sc) ==
  SumSeq([i \in 1..Len(sc.scenes) |->
            IF sc.scenes[i].estimated_duration_seconds = None THEN 0
            ELSE sc.scenes[i].estimated_duration_seconds[1]])

\* C9 as stated: the checks short-circuit on the first failing one, so the
\* returned list never mixes a word-count issue with a duration issue.
C9_ShortCircuitOnFirstFailingCheck ==
  pc = "validated" =>
    /\ ~self_check.valid => Len(issues) = 1 /\ issues[1].msg = self_check.error
    /\ ~(\E i, j \in 1..Len(issues) : IsTooLong(issues[i]) /\ IsDuration(issues[j]))

\* C9 as the code has it: only a structural failure short-circuits (one
\* issue, the structural one); for a structurally valid script the list is
\* one too-long issue per dialogue of more than 50 words, in scene order,
\* followed by the duration issue whenever the durations deviate, also when
\* a dialogue was too long.
C9_StructuralShortCircuitThenAccumulate ==
  pc = "validated" =>
    /\ ~self_check.valid => Len(issues) = 1 /\ issues[1].msg = self_check.error
    /\ self_check.valid =>
         LET nlong == Cardinality(LongLines(script))
             dev == EstimateSum(script) > 0
                    /\ 10 * Abs(EstimateSum(script) - script.target_duration_seconds)
                         > 3 * script.target_duration_seconds
         IN  /\ Len(issues) = nlong + (IF dev THEN 1 ELSE 0)
             /\ \A i \in 1..nlong : IsTooLong(issues[i])
             /\ dev => IsDuration(issues[Len(issues)])
             /\ valid = (issues = <<>>)

\* a script with an over-long dialogue and deviating durations: two issues
C9_Witness ==
  /\ pc = "validated" /\ self_check.valid /\ Len(issues) = 2
  /\ IsTooLong(issues[1]) /\ IsDuration(issues[2])

HasDurationIssue == \E i \in 1..Len(issues) : IsDuration(issues[i])

\* C10 as stated: for a structurally valid Script the duration issue is
\* raised (and the result is false) exactly when 10*|sum - target| > 3*target.
C10_DurationIssueIffDeviation ==
  (pc = "validated" /\ self_check.valid) =>
    LET dev == 10 * Abs(EstimateSum(script) - script.target_duration_seconds)
                 > 3 * script.target_duration_seconds
    IN  /\ dev => ~valid /\ HasDurationIssue
        /\ ~dev => ~HasDurationIssue

\* C10 as the code has it: the duration is only compared when the sum of the
\* estimates is positive; a sum of 0 or less raises no duration issue.
C10_DurationIssueIffPositiveSumDeviates ==
  (pc = "validated" /\ self_check.valid) =>
    LET sum == EstimateSum(script)
        dev == 10 * Abs(sum - script.target_duration_seconds)
                 > 3 * script.target_duration_seconds
    IN  /\ (sum > 0 /\ dev) => ~valid /\ HasDurationIssue
        /\ (sum <= 0 \/ ~dev) => ~HasDurationIssue

\* the estimates sum to 79 against a target of 60: just over 30%
C10_Witness ==
  /\ pc = "validated" /\ self_check.valid /\ EstimateSum(script) = 79
  /\ script.target_duration_seconds = 60 /\ HasDurationIssue /\ ~valid

(***************************************************************************)
(* The generators and validators called one after another on hand-made and *)
(* generator-made Scripts, the way the test suites call them: between two  *)
(* calls the caller may edit the artifact it holds (the tests drop or      *)
(* append breakdown entries and append shots) or pass another Script.      *)
(* trace records the calls and the edits; a call that raised ends the run  *)
(* with pc = "raised" and the exception in errors.                         *)
(***************************************************************************)
StageGenres == {"Drama", "Horror"}

StageTargets == {-60, 0, 60}

StageDurations == {None, Some(2), Some(5), Some(55)}

StageLine == Dialogue("Elena", ShortText, "None")

StageDialogues == { <<>>, << StageLine >>, << StageLine, StageLine >> }

\* briefs whose generated Script is handed to the later stages
StageBriefTargets == {30, 44, 45, 120}

\* a hand-made Script: scenes numbered 1..n, the hook first, any estimates
\* and any number of lines (none included), any title, genre and target
IsHandStageScript(sc) ==
  \E n \in 1..MaxScenes :
    \E est \in [1..n -> StageDurations], dlg \in [1..n -> StageDialogues],
       g \in StageGenres, t \in StageTargets, ti \in Titles :
      sc = [HandScript([i \in 1..n |-> HandScene(i, i = 1, est[i], dlg[i])])
              EXCEPT !.genre = g, !.target_duration_seconds = t, !.title = ti]

IsGeneratedStageScript(sc) ==
  \E g \in Genres \ {"   "}, t \in StageBriefTargets :
    sc = ScriptGenerator_generate("Test Drama", g, "tiktok", t, "Adults")

\* made by ScriptGenerator.generate from its own fields
MadeByScriptGenerator(sc) ==
  sc = ScriptGenerator_generate(sc.title, sc.genre, sc.platform,
                                sc.target_duration_seconds, sc.target_audience)

InitStages ==
  /\ pc = "script_made"
  /\ (IsHandStageScript(script) \/ IsGeneratedStageScript(script))
  /\ brief = Unset /\ breakdown = Unset /\ storyboard = Unset
  /\ production_notes = Unset /\ postprod_notes = Unset
  /\ valid = TRUE /\ issues = <<>> /\ self_check = Ok
  /\ errors = <<>> /\ output_files = <<>>
  /\ dir_exists = FALSE /\ files = {}
  /\ success = FALSE
  /\ trace = <<>>
  /\ passed = {}
  /\ hash_order = NameOrderA /\ NoLoop

EditSteps == {"edit_breakdown", "edit_storyboard", "other_script"}

\* the caller edits or swaps at most one artifact per run
Edited == \E i \in 1..Len(trace) : trace[i] \in EditSteps

\* "raise ValueError(...)" / ZeroDivisionError leaving the call
Raised(what) ==
  /\ errors' = Append(errors, Issue(what, 0))
  /\ pc' = "raised"

BreakdownEdits == {"drop_last", "append_first", "append_next", "undeclared_character",
                   "no_wardrobe", "no_characters", "blank_title"}

EditedBreakdown(b, e) ==
  LET last == b.entries[Len(b.entries)]
  IN  CASE e = "drop_last" ->
             [b EXCEPT !.entries = SubSeq(b.entries, 1, Len(b.entries) - 1)]
        [] e = "append_first" -> [b EXCEPT !.entries = Append(b.entries, b.entries[1])]
        [] e = "append_next" ->
             [b EXCEPT !.entries =
                Append(b.entries, [last EXCEPT !.scene_number = last.scene_number + 1])]
        [] e = "undeclared_character" ->
             [b EXCEPT !.entries[1].characters = Append(@, "Ghost")]
        [] e = "no_wardrobe" -> [b EXCEPT !.entries[1].wardrobe = <<>>]
        [] e = "no_characters" -> [b EXCEPT !.entries[1].characters = <<>>]
        [] e = "blank_title" -> [b EXCEPT !.script_title = ""]
        [] OTHER -> b

StoryboardEdits == {"target_zero", "target_negative", "no_shots", "foreign_scene",
                    "drop_shot", "duplicate_id", "zero_duration", "long_shot",
                    "blank_title"}

\* the shot the storyboard test appends: scene 999 does not exist
ForeignShot == Shot(<< 999, "Z" >>, 999, "WS", << "Test", "" >>, << "Invalid", "" >>,
                    5, "None")

EditedStoryboard(sb, e) ==
  CASE e = "target_zero" -> [sb EXCEPT !.target_duration_seconds = 0]
    [] e = "target_negative" -> [sb EXCEPT !.target_duration_seconds = 0 - @]
    [] e = "no_shots" -> [sb EXCEPT !.shots = <<>>]
    [] e = "foreign_scene" -> [sb EXCEPT !.shots = Append(@, ForeignShot)]
    [] e = "drop_shot" -> [sb EXCEPT !.shots = SubSeq(@, 1, Len(@) - 1)]
    [] e = "duplicate_id" -> [sb EXCEPT !.shots[Len(sb.shots)].shot_id = sb.shots[1].shot_id]
    [] e = "zero_duration" -> [sb EXCEPT !.shots[1].suggested_duration_seconds = 0]
    [] e = "long_shot" ->
         [sb EXCEPT !.shots[1].suggested_duration_seconds = @ + sb.target_duration_seconds]
    [] e = "blank_title" -> [sb EXCEPT !.script_title = "   "]
    [] OTHER -> sb

\* shot j set up like shot i: the same size and the same camera position
SameSetup(sb, i, j) ==
  [sb EXCEPT !.shots[j].shot_size = sb.shots[i].shot_size,
             !.shots[j].camera_position = sb.shots[i].camera_position]

\* breakdown = BreakdownGenerator().generate(script)
CallBreakdownGenerate ==
  /\ pc = "validated"
  /\ trace' = Append(trace, "BreakdownGenerator.generate")
  /\ IF BreakdownGenerator_raises(script)
     THEN Raised("ValueError: Invalid script") /\ UNCHANGED breakdown
     ELSE /\ \E ord \in HashOrders : breakdown' = BreakdownGenerator_generate(script, ord)
          /\ pc' = "breakdown_made"
          /\ UNCHANGED errors
  /\ UNCHANGED << brief, loop, hash_order, script, storyboard, production_notes, postprod_notes, valid,
                  issues, self_check, output_files, disk, success, passed >>

\* the caller edits the breakdown it was given (breakdown.entries = ...[:-1])
EditBreakdown ==
  /\ pc = "breakdown_made" /\ ~Edited
  /\ \E e \in BreakdownEdits : breakdown' = EditedBreakdown(breakdown, e)
  /\ trace' = Append(trace, "edit_breakdown")
  /\ UNCHANGED << pc, brief, loop, hash_order, script, storyboard, production_notes, postprod_notes, valid,
                  issues, self_check, errors, output_files, disk, success, passed >>

\* valid, issues = BreakdownValidator().validate_against_script(breakdown, script)
CallValidateAgainstScript ==
  /\ pc = "breakdown_made"
  /\ trace' = Append(trace, "BreakdownValidator.validate_against_script")
  /\ LET r == BreakdownValidator_validate_against_script(breakdown, script)
     IN  valid' = r.valid /\ issues' = r.issues
  /\ pc' = "breakdown_checked"
  /\ UNCHANGED << brief, loop, hash_order, locals, self_check, errors, output_files, disk, success, passed >>

\* the caller goes on with another Script object, one that fails validate()
PassOtherScript ==
  /\ pc \in {"breakdown_checked", "continuity_checked"} /\ ~Edited
  /\ \E d \in {"blank_title", "target_high", "blank_location"} :
       script' = WithDefect(script, d)
  /\ trace' = Append(trace, "other_script")
  /\ UNCHANGED << pc, brief, loop, hash_order, breakdown, storyboard, production_notes, postprod_notes,
                  valid, issues, self_check, errors, output_files, disk, success, passed >>

\* storyboard = StoryboardGenerator().generate(script, breakdown)
CallStoryboardGenerate ==
  /\ pc = "breakdown_checked"
  /\ trace' = Append(trace, "StoryboardGenerator.generate")
  /\ IF StoryboardGenerator_raises(script, breakdown)
     THEN Raised("ValueError: Invalid script or breakdown") /\ UNCHANGED storyboard
     ELSE /\ storyboard' = StoryboardGenerator_generate(script, breakdown)
          /\ pc' = "storyboard_made"
          /\ UNCHANGED errors
  /\ UNCHANGED << brief, loop, hash_order, script, breakdown, production_notes, postprod_notes, valid,
                  issues, self_check, output_files, disk, success, passed >>

\* the caller edits the storyboard it was given (storyboard.shots.append(...))
EditStoryboard ==
  /\ pc = "storyboard_made" /\ ~Edited
  /\ \/ \E e \in StoryboardEdits : storyboard' = EditedStoryboard(storyboard, e)
     \/ \E i \in 1..Len(storyboard.shots) :
          \E j \in (i + 1)..Min(i + 2, Len(storyboard.shots)) :
            storyboard' = SameSetup(storyboard, i, j)
  /\ trace' = Append(trace, "edit_storyboard")
  /\ UNCHANGED << pc, brief, loop, hash_order, script, breakdown, production_notes, postprod_notes, valid,
                  issues, self_check, errors, output_files, disk, success, passed >>

\* valid, issues = ContinuityChecker().check_continuity(storyboard, script);
\* the call raises when storyboard.validate() divides by a zero target
CallCheckContinuity ==
  /\ pc = "storyboard_made"
  /\ trace' = Append(trace, "ContinuityChecker.check_continuity")
  /\ IF Storyboard_validate_raises(storyboard)
     THEN Raised("ZeroDivisionError") /\ UNCHANGED << valid, issues >>
     ELSE /\ LET r == ContinuityChecker_check_continuity(storyboard, script)
             IN  valid' = r.valid /\ issues' = r.issues
          /\ pc' = "continuity_checked"
          /\ UNCHANGED errors
  /\ UNCHANGED << brief, loop, hash_order, locals, self_check, output_files, disk, success, passed >>

\* notes = ProductionAdvisoryGenerator().generate(script, breakdown, storyboard)
CallProductionAdvisory ==
  /\ pc = "continuity_checked"
  /\ trace' = Append(trace, "ProductionAdvisoryGenerator.generate")
  /\ production_notes' = ProductionAdvisoryGenerator_generate(script, breakdown, storyboard)
  /\ pc' = "production_notes_made"
  /\ UNCHANGED << brief, loop, hash_order, script, breakdown, storyboard, postprod_notes, valid, issues,
                  self_check, errors, output_files, disk, success, passed >>

\* notes = PostProductionAdvisoryGenerator().generate(script, storyboard)
CallPostProductionAdvisory ==
  /\ pc = "production_notes_made"
  /\ trace' = Append(trace, "PostProductionAdvisoryGenerator.generate")
  /\ postprod_notes' = PostProductionAdvisoryGenerator_generate(script, storyboard)
  /\ pc' = "postprod_notes_made"
  /\ UNCHANGED << brief, loop, hash_order, script, breakdown, storyboard, production_notes, valid, issues,
                  self_check, errors, output_files, disk, success, passed >>

NextStages ==
  \/ CallScriptValidate
  \/ CallValidateForProduction
  \/ CallBreakdownGenerate
  \/ EditBreakdown
  \/ CallValidateAgainstScript
  \/ PassOtherScript
  \/ CallStoryboardGenerate
  \/ EditStoryboard
  \/ CallCheckContinuity
  \/ CallProductionAdvisory
  \/ CallPostProductionAdvisory

SpecStages == InitStages /\ [][NextStages]_vars

(***************************************************************************)
(* Properties of the generators and validators (checked under SpecStages)  *)
(***************************************************************************)
\* the step just taken was the call named name
Called(name) == trace' = Append(trace, name)

EntryNumbers(b) == {b.entries[i].scene_number : i \in 1..Len(b.entries)}

SceneNumberSet(sc) == {sc.scenes[i].scene_number : i \in 1..Len(sc.scenes)}

\* C11: for every Script that passes Script.validate, the Breakdown returned
\* by BreakdownGenerator.generate has one entry per scene, the same set of
\* scene numbers as the Script, and at least one character in every entry.
C11_BreakdownEntryPerSceneWithCharacters ==
  (pc = "breakdown_made" /\ ~Edited /\ self_check.valid) =>
    /\ Len(breakdown.entries) = Len(script.scenes)
    /\ EntryNumbers(breakdown) = SceneNumberSet(script)
    /\ \A i \in 1..Len(breakdown.entries) : breakdown.entries[i].characters # <<>>

\* C12: BreakdownGenerator.generate returns a Breakdown exactly when the
\* Script passes Script.validate and raises otherwise; StoryboardGenerator
\* .generate returns a Storyboard exactly when the Script and the Breakdown
\* both pass their validate and raises otherwise; a call that raised has
\* produced no Breakdown, respectively no Storyboard.
C12_GeneratorsRaiseOnInvalidInput ==
  /\ [][Called("BreakdownGenerator.generate") =>
          IF Script_validate(script).valid
          THEN pc' = "breakdown_made" /\ breakdown' # Unset
          ELSE pc' = "raised" /\ breakdown' = Unset /\ errors' # <<>>]_vars
  /\ [][Called("StoryboardGenerator.generate") =>
          IF Script_validate(script).valid /\ Breakdown_validate(breakdown).valid
          THEN pc' = "storyboard_made" /\ storyboard' # Unset
          ELSE pc' = "raised" /\ storyboard' = Unset /\ errors' # <<>>]_vars

\* StoryboardGenerator.generate raised on a valid Script with an invalid Breakdown
C12_Witness ==
  /\ pc = "raised" /\ LastStep = "StoryboardGenerator.generate"
  /\ Script_validate(script).valid /\ ~Breakdown_validate(breakdown).valid
  /\ storyboard = Unset

ValidatorCalls == {"BreakdownValidator.validate_against_script",
                   "ContinuityChecker.check_continuity"}

\* C13: no validator call raises, also on zero or negative targets, empty
\* lists and inconsistent cross-references; each returns (is_valid, issues)
\* with is_valid true exactly when issues is empty.
C13_ValidatorsNeverRaise ==
  /\ pc = "raised" => LastStep \notin ValidatorCalls
  /\ pc \in {"validated", "breakdown_checked", "continuity_checked"} =>
       (valid <=> issues = <<>>)

DeclaredCharacters(sc) == {sc.characters[i].name : i \in 1..Len(sc.characters)}

\* the breakdown is what BreakdownGenerator.generate returned for the script,
\* less its last entry
LastEntryRemoved ==
  \E ord \in HashOrders :
    breakdown = EditedBreakdown(BreakdownGenerator_generate(script, ord), "drop_last")

MissingSceneIssue(n) ==
  \E i \in 1..Len(issues) : /\ issues[i].msg = "Missing breakdown entries for scenes"
                            /\ issues[i].args = << n >>

ShotSeconds(sb) == [i \in 1..Len(sb.shots) |-> sb.shots[i].suggested_duration_seconds]

\* abs(total - target) / target <= 0.20 for a positive target
WithinTolerance(sb) ==
  5 * Abs(SumSeq(ShotSeconds(sb)) - sb.target_duration_seconds)
    <= sb.target_duration_seconds

\* C15: for every brief with a target in 30..120 and any genre, the
\* Storyboard made by ScriptGenerator, BreakdownGenerator and
\* StoryboardGenerator in turn has a total shot duration within 20% of the
\* brief's target.
C15_PipelineStoryboardWithinTolerance ==
  storyboard # Unset =>
    /\ brief.target_duration_seconds \in MinDuration..MaxDuration
    /\ storyboard.target_duration_seconds = brief.target_duration_seconds
    /\ WithinTolerance(storyboard)

\* a horror brief of 46 s: the integer division drops a second per scene
C15_Witness ==
  /\ storyboard # Unset /\ brief.genre = "Horror"
  /\ brief.target_duration_seconds = 46
  /\ SumSeq(ShotSeconds(storyboard)) < 46
  /\ WithinTolerance(storyboard)

\* C16: for every Script and Breakdown that pass their own validate, the
\* Storyboard returned by StoryboardGenerator.generate has unique shot ids,
\* a duration of at least 1 s in every shot, only shots of existing scenes,
\* and a total duration within 20% of the target.
C16_GeneratedStoryboardInvariant ==
  (pc = "storyboard_made" /\ LastStep = "StoryboardGenerator.generate") =>
    /\ \A i, j \in 1..Len(storyboard.shots) :
         storyboard.shots[i].shot_id = storyboard.shots[j].shot_id => i = j
    /\ \A i \in 1..Len(storyboard.shots) :
         /\ storyboard.shots[i].suggested_duration_seconds >= 1
         /\ storyboard.shots[i].scene_number \in SceneNumberSet(script)
    /\ WithinTolerance(storyboard)

\* positions i of a shot set up like the shot before it, in the same scene
JumpCuts(sb) ==
  {i \in 2..Len(sb.shots) :
     /\ sb.shots[i-1].scene_number = sb.shots[i].scene_number
     /\ sb.shots[i-1].shot_size = sb.shots[i].shot_size
     /\ sb.shots[i-1].camera_position = sb.shots[i].camera_position}

ShotsOfScene(sb, n) == {i \in 1..Len(sb.shots) : sb.shots[i].scene_number = n}

IsJumpCut(i) == i.msg = "Potential jump cut (same size and position)"

\* C17: check_continuity returns valid exactly when the storyboard passes
\* its self-check, every shot belongs to a script scene, no two consecutive
\* shots of one scene share size and camera position, and every script scene
\* has at least 2 shots; for a structurally valid storyboard there is one
\* jump-cut issue per such pair and none for any other pair of shots.
C17_ContinuityValidIffAllChecks ==
  (pc = "continuity_checked" /\ LastStep = "ContinuityChecker.check_continuity") =>
    /\ valid <=>
         /\ Storyboard_validate(storyboard).valid
         /\ \A i \in 1..Len(storyboard.shots) :
              storyboard.shots[i].scene_number \in SceneNumberSet(script)
         /\ JumpCuts(storyboard) = {}
         /\ \A n \in SceneNumberSet(script) :
              Cardinality(ShotsOfScene(storyboard, n)) >= 2
    /\ Storyboard_validate(storyboard).valid =>
         Cardinality({i \in 1..Len(issues) : IsJumpCut(issues[i])})
           = Cardinality(JumpCuts(storyboard))

\* one pair of consecutive same-scene shots with the same setup, one issue
C17_Witness ==
  /\ pc = "continuity_checked" /\ LastStep = "ContinuityChecker.check_continuity"
  /\ Storyboard_validate(storyboard).valid /\ ~valid
  /\ Cardinality(JumpCuts(storyboard)) = 1
  /\ Len(issues) = 1 /\ IsJumpCut(issues[1])

(***************************************************************************)
(* Properties of the advisory generators (checked under SpecStages)        *)
(***************************************************************************)
ProductionItems(n) ==
  n.continuity_risks \o n.audio_recommendations \o n.coverage_suggestions

PostProductionItems(n) ==
  n.editing_suggestions \o n.platform_guidelines \o n.revision_pitfalls

\* at least 3 items, each with a category, a description, a known priority
\* and at least one actionable step
ItemsAcceptable(items) ==
  /\ Len(items) >= 3
  /\ \A i \in 1..Len(items) :
       /\ ~IsBlank(items[i].category) /\ ~IsBlank(items[i].description)
       /\ items[i].priority \in {"HIGH", "MEDIUM", "LOW"}
       /\ items[i].actionable_steps >= 1

\* C18: for every Script with a non-blank title and every Breakdown and
\* Storyboard, the notes of both advisory generators validate: at least 3
\* items over the three lists, every item acceptable.
C18_AdvisoryNotesValidate ==
  ~IsBlank(script.title) =>
    /\ production_notes # Unset =>
         /\ ProductionNotes_validate(production_notes).valid
         /\ ItemsAcceptable(ProductionItems(production_notes))
    /\ postprod_notes # Unset =>
         /\ PostProductionNotes_validate(postprod_notes).valid
         /\ ItemsAcceptable(PostProductionItems(postprod_notes))

\* both notes made for a Script that fails validate() and a Storyboard that
\* the continuity check rejected
C18_Witness ==
  /\ pc = "postprod_notes_made" /\ ~valid
  /\ ~Script_validate(script).valid /\ ~IsBlank(script.title)
  /\ ProductionNotes_validate(production_notes).valid
  /\ PostProductionNotes_validate(postprod_notes).valid

(***************************************************************************)
(* Frame property of the stages (checked under Spec)                       *)
(***************************************************************************)
\* C19: no step of the pipeline changes an artifact made earlier: once
\* assigned, the Script, the Breakdown, the Storyboard and the production
\* notes keep their value through every later generator and validator call
\* (and the brief is never changed).
C19_StagesLeaveEarlierArtifactsUnchanged ==
  [][/\ brief' = brief
     /\ script # Unset => script' = script
     /\ breakdown # Unset => breakdown' = breakdown
     /\ storyboard # Unset => storyboard' = storyboard
     /\ production_notes # Unset => production_notes' = production_notes]_vars

\* after the last stage every artifact is still what its generator returned
C19_Witness ==
  /\ pc = "done" /\ success /\ postprod_notes # Unset
  /\ script = ScriptGenerator_generate(brief.title, brief.genre, brief.platform,
                                       brief.target_duration_seconds,
                                       brief.target_audience)
  /\ \E ord \in HashOrders : breakdown = BreakdownGenerator_generate(script, ord)
  /\ storyboard = StoryboardGenerator_generate(script, breakdown)
  /\ production_notes = ProductionAdvisoryGenerator_generate(script, breakdown, storyboard)

(***************************************************************************)
(* Two execute_full_workflow calls on one file system                      *)
(* (workflow/entertainment_workflow.py).  In this specification every      *)
(* variable of the call holds one value per run (pc[r], script[r], ...),   *)
(* dir_exists is the set of directories that exist and files the set of    *)
(* files, each with its directory, name and content.  The working          *)
(* directory exists, "a" and "b" are its subdirectories once created.      *)
(* File operations fail only for a reason the model holds (a missing       *)
(* directory): the environment is the same for a run alone and interleaved.*)
(***************************************************************************)
Runs == {1, 2}

\* the output_dir argument of each run
OutputDirs == << "a", "b" >>

\* a plain title, and one that holds a relative path
RunTitles == {"Test Drama", "../b/Test Drama"}

RunGenres == {"Drama", "Horror"}

RunTargets == {20, 60}

RunBriefs(r) == [title : RunTitles, genre : RunGenres, platform : {"tiktok"},
                 target_duration_seconds : RunTargets,
                 target_audience : {"Adults"}, output_dir : {OutputDirs[r]}]

\* title.replace(' ', '_')
Underscored(t) ==
  CASE t = "Test Drama"      -> "Test_Drama"
    [] t = "../b/Test Drama" -> "../b/Test_Drama"
    [] OTHER                 -> t

\* output_path / f"{title.replace(' ', '_')}_{key}.{ext}", kept as its parts
OutputPath(b, key) == << b.output_dir, Underscored(b.title), key >>

\* the directory that holds the file of a path: "dir/../b/x" is "b/x"
ParentDir(path) == IF path[2] = "../b/Test_Drama" THEN "b" ELSE path[1]

FileName(path) ==
  << IF path[2] = "../b/Test_Drama" THEN "Test_Drama" ELSE path[2], path[3] >>

\* the local variables of one call
InitialRun(b) ==
  [pc |-> "generate_script", brief |-> b,
   script |-> Unset, breakdown |-> Unset, storyboard |-> Unset,
   production_notes |-> Unset, postprod_notes |-> Unset,
   valid |-> TRUE, issues |-> <<>>, errors |-> <<>>, output_files |-> <<>>,
   success |-> FALSE]

EmptyDisk == [dirs |-> {}, files |-> {}]

\* "errors.extend(issues); return False, errors, output_files"
RunFailure(st, found) ==
  [st EXCEPT !.errors = @ \o found, !.success = FALSE, !.pc = "done"]

\* the except branch
RunRaise(st) == RunFailure(st, << Issue("Workflow error", 0) >>)

RunGate(st, r, next) ==
  LET s == [st EXCEPT !.valid = r.valid, !.issues = r.issues]
  IN  IF r.valid THEN [s EXCEPT !.pc = next] ELSE RunFailure(s, r.issues)

\* path.write_text(content): opens the file for writing, which needs its
\* directory (and the directories the path goes through); an existing file
\* of that name is replaced.  Then output_files[key] = str(path).
RunWriteText(st, fsys, key, content, next) ==
  LET path == OutputPath(st.brief, key)
      dir  == ParentDir(path)
      kept == {f \in fsys.files : ~(f.dir = dir /\ f.name = FileName(path))}
  IN  IF path[1] \in fsys.dirs /\ dir \in fsys.dirs
      THEN [st |-> [st EXCEPT !.output_files = Append(@, << key, path >>),
                              !.pc = next],
            fs |-> [fsys EXCEPT !.files =
                      kept \cup {[dir |-> dir, name |-> FileName(path),
                                  content |-> << key, content >>]}]]
      ELSE [st |-> RunRaise(st), fs |-> fsys]

\* one step of execute_full_workflow on the call's variables st and the file
\* system fsys: the set of outcomes [st, fs]
WorkflowStep(st, fsys) ==
  LET b == st.brief
      Local(s) == {[st |-> s, fs |-> fsys]}
  IN  CASE st.pc = "generate_script" ->
             Local([st EXCEPT !.script =
                           ScriptGenerator_generate(b.title, b.genre, b.platform,
                                                    b.target_duration_seconds,
                                                    b.target_audience),
                         !.pc = "validate_script"])
        [] st.pc = "validate_script" ->
             Local(RunGate(st, ScriptValidator_validate_for_production(st.script), "mkdir"))
        [] st.pc = "mkdir" ->
             {[st |-> [st EXCEPT !.pc = "write_script"],
               fs |-> [fsys EXCEPT !.dirs = @ \cup {b.output_dir}]]}
        [] st.pc = "write_script" ->
             {RunWriteText(st, fsys, "script", st.script, "generate_breakdown")}
        [] st.pc = "generate_breakdown" ->
             IF BreakdownGenerator_raises(st.script)
             THEN Local(RunRaise(st))
             ELSE {[st |-> [st EXCEPT !.breakdown = BreakdownGenerator_generate(st.script, ord),
                                      !.pc = "validate_breakdown"],
                    fs |-> fsys] : ord \in HashOrders}
        [] st.pc = "validate_breakdown" ->
             Local(RunGate(st, BreakdownValidator_validate_against_script(st.breakdown, st.script),
                           "write_breakdown_json"))
        [] st.pc = "write_breakdown_json" ->
             {RunWriteText(st, fsys, "breakdown_json", st.breakdown, "write_breakdown_csv")}
        [] st.pc = "write_breakdown_csv" ->
             {RunWriteText(st, fsys, "breakdown_csv", st.breakdown, "generate_storyboard")}
        [] st.pc = "generate_storyboard" ->
             IF StoryboardGenerator_raises(st.script, st.breakdown)
             THEN Local(RunRaise(st))
             ELSE Local([st EXCEPT !.storyboard =
                                StoryboardGenerator_generate(st.script, st.breakdown),
                              !.pc = "check_continuity"])
        [] st.pc = "check_continuity" ->
             IF Storyboard_validate_raises(st.storyboard)
             THEN Local(RunRaise(st))
             ELSE Local(RunGate(st, ContinuityChecker_check_continuity(st.storyboard, st.script),
                                "write_storyboard"))
        [] st.pc = "write_storyboard" ->
             {RunWriteText(st, fsys, "storyboard", st.storyboard, "write_shotlist")}
        [] st.pc = "write_shotlist" ->
             {RunWriteText(st, fsys, "shotlist", st.storyboard, "generate_production_notes")}
        [] st.pc = "generate_production_notes" ->
             Local([st EXCEPT !.production_notes =
                           ProductionAdvisoryGenerator_generate(st.script, st.breakdown,
                                                                st.storyboard),
                         !.pc = "validate_production_notes"])
        [] st.pc = "validate_production_notes" ->
             Local(RunGate(st, NotesGate(ProductionNotes_validate(st.production_notes)),
                           "write_production_notes"))
        [] st.pc = "write_production_notes" ->
             {RunWriteText(st, fsys, "production_notes", st.production_notes,
                           "generate_postprod_notes")}
        [] st.pc = "generate_postprod_notes" ->
             Local([st EXCEPT !.postprod_notes =
                           PostProductionAdvisoryGenerator_generate(st.script, st.storyboard),
                         !.pc = "validate_postprod_notes"])
        [] st.pc = "validate_postprod_notes" ->
             Local(RunGate(st, NotesGate(PostProductionNotes_validate(st.postprod_notes)),
                           "write_postprod_notes"))
        [] st.pc = "write_postprod_notes" ->
             {RunWriteText(st, fsys, "postproduction_notes", st.postprod_notes,
                           "return_success")}
        [] st.pc = "return_success" ->
             Local([st EXCEPT !.success = TRUE, !.pc = "done"])
        [] OTHER -> {}

\* the call's variables, read from the state
RunState(r) ==
  [pc |-> pc[r], brief |-> brief[r],
   script |-> script[r], breakdown |-> breakdown[r], storyboard |-> storyboard[r],
   production_notes |-> production_notes[r], postprod_notes |-> postprod_notes[r],
   valid |-> valid[r], issues |-> issues[r], errors |-> errors[r],
   output_files |-> output_files[r], success |-> success[r]]

Disk == [dirs |-> dir_exists, files |-> files]

InitRuns ==
  /\ brief \in {f \in [Runs -> UNION {RunBriefs(r) : r \in Runs}] :
                  \A r \in Runs : f[r] \in RunBriefs(r)}
  /\ pc = [r \in Runs |-> "generate_script"]
  /\ script = [r \in Runs |-> Unset] /\ breakdown = [r \in Runs |-> Unset]
  /\ storyboard = [r \in Runs |-> Unset]
  /\ production_notes = [r \in Runs |-> Unset]
  /\ postprod_notes = [r \in Runs |-> Unset]
  /\ valid = [r \in Runs |-> TRUE] /\ issues = [r \in Runs |-> <<>>]
  /\ errors = [r \in Runs |-> <<>>] /\ output_files = [r \in Runs |-> <<>>]
  /\ success = [r \in Runs |-> FALSE]
  /\ dir_exists = {} /\ files = {}
  /\ self_check = Ok /\ trace = <<>> /\ passed = {}
  /\ hash_order = NameOrderA /\ NoLoop

\* run r takes its next step, which is one of those in steps
Advance(r, steps) ==
  /\ pc[r] \in steps
  /\ \E o \in WorkflowStep(RunState(r), Disk) :
       /\ pc' = [pc EXCEPT ![r] = o.st.pc]
       /\ script' = [script EXCEPT ![r] = o.st.script]
       /\ breakdown' = [breakdown EXCEPT ![r] = o.st.breakdown]
       /\ storyboard' = [storyboard EXCEPT ![r] = o.st.storyboard]
       /\ production_notes' = [production_notes EXCEPT ![r] = o.st.production_notes]
       /\ postprod_notes' = [postprod_notes EXCEPT ![r] = o.st.postprod_notes]
       /\ valid' = [valid EXCEPT ![r] = o.st.valid]
       /\ issues' = [issues EXCEPT ![r] = o.st.issues]
       /\ errors' = [errors EXCEPT ![r] = o.st.errors]
       /\ output_files' = [output_files EXCEPT ![r] = o.st.output_files]
       /\ success' = [success EXCEPT ![r] = o.st.success]
       /\ dir_exists' = o.fs.dirs
       /\ files' = o.fs.files
  /\ UNCHANGED << brief, loop, hash_order, self_check, trace, passed >>

RunGenerates(r) ==
  Advance(r, {"generate_script", "generate_breakdown", "generate_storyboard",
              "generate_production_notes", "generate_postprod_notes"})

RunValidates(r) ==
  Advance(r, {"validate_script", "validate_breakdown", "check_continuity",
              "validate_production_notes", "validate_postprod_notes"})

RunMakesOutputDir(r) == Advance(r, {"mkdir"})

RunWrites(r) ==
  Advance(r, {"write_script", "write_breakdown_json", "write_breakdown_csv",
              "write_storyboard", "write_shotlist", "write_production_notes",
              "write_postprod_notes"})

RunReturnsSuccess(r) == Advance(r, {"return_success"})

NextRuns ==
  \/ \E r \in Runs : RunGenerates(r)
  \/ \E r \in Runs : RunValidates(r)
  \/ \E r \in Runs : RunMakesOutputDir(r)
  \/ \E r \in Runs : RunWrites(r)
  \/ \E r \in Runs : RunReturnsSuccess(r)

SpecRuns == InitRuns /\ [][NextRuns]_vars

\* what a call can end in when it runs alone, from st on the disk fsys
RECURSIVE RunAlone(_, _)
RunAlone(st, fsys) ==
  IF st.pc = "done"
  THEN {[st |-> st, fs |-> fsys]}
  ELSE UNION {RunAlone(o.st, o.fs) : o \in WorkflowStep(st, fsys)}

(***************************************************************************)
(* Interleaved runs (checked under SpecRuns)                               *)
(***************************************************************************)
FilesIn(fls, dir) == {f \in fls : f.dir = dir}

AllDone == \A r \in Runs : pc[r] = "done"

\* run r returned, and its directory holds, what one run of r alone gives
AsAlone(r) ==
  \E o \in RunAlone(InitialRun(brief[r]), EmptyDisk) :
    /\ success[r] = o.st.success
    /\ errors[r] = o.st.errors
    /\ output_files[r] = o.st.output_files
    /\ FilesIn(files, brief[r].output_dir) = FilesIn(o.fs.files, brief[r].output_dir)

\* C20: two execute_full_workflow runs with distinct output directories,
\* interleaved step by step in any order: each run returns the same
\* (success, errors, output_files) and leaves the same files with the same
\* contents in its own directory as when it runs alone, and no run writes a
\* file into the other run's directory.
C20_InterleavedRunsBehaveAsAlone ==
  /\ \A r \in Runs : \A i \in 1..Len(output_files[r]) :
       ParentDir(output_files[r][i][2]) = brief[r].output_dir
  /\ AllDone => \A r \in Runs : AsAlone(r)

(***************************************************************************)
(* BreakdownGenerator.generate called on one Script more than once, in the *)
(* same interpreter or after a restart (generators/breakdown_generator.py) *)
(***************************************************************************)
DrinkText == Txt(8, 40, {"drink"})

\* the lines of a scene: none, one speaker, two speakers in either order,
\* with and without lines that mention a drink
BreakdownDialogues ==
  { <<>>,
    << Dialogue("Elena", ShortText, "None") >>,
    << Dialogue("Elena", DrinkText, "None") >>,
    << Dialogue("Elena", DrinkText, "None"), Dialogue("Marcus", DrinkText, "None") >>,
    << Dialogue("Elena", ShortText, "None"), Dialogue("Marcus", DrinkText, "None") >>,
    << Dialogue("Marcus", ShortText, "None"), Dialogue("Elena", ShortText, "None") >> }

BreakdownDescriptions ==
  {Txt(9, 48, {}), Txt(9, 48, {"coffee"}), Txt(9, 48, {"cup", "table"})}

\* a valid Script with two declared characters
IsBreakdownScript(sc) ==
  \E n \in 1..MaxScenes :
    \E dlg \in [1..n -> BreakdownDialogues], desc \in [1..n -> BreakdownDescriptions] :
      sc = [HandScript([i \in 1..n |->
                          Scene(i, "Train Station Platform", "DAY", "INT", desc[i],
                                dlg[i], Some(30), i = 1)])
              EXCEPT !.characters =
                << Character("Elena", "Determined protagonist", "25-35"),
                   Character("Marcus", "Old friend", "25-35") >>]

InitBreakdown ==
  /\ pc = "validated"
  /\ IsBreakdownScript(script)
  /\ hash_order \in HashOrders
  /\ brief = Unset /\ breakdown = Unset /\ storyboard = Unset
  /\ production_notes = Unset /\ postprod_notes = Unset
  /\ valid = TRUE /\ issues = <<>> /\ self_check = Ok
  /\ errors = <<>> /\ output_files = <<>>
  /\ dir_exists = FALSE /\ files = {}
  /\ success = FALSE
  /\ trace = <<>>
  /\ passed = {}
  /\ NoLoop

\* breakdown = BreakdownGenerator().generate(script), the first time and again
GenerateBreakdownInInterpreter ==
  /\ pc \in {"validated", "breakdown_made"}
  /\ Cardinality({i \in 1..Len(trace) : trace[i] = "BreakdownGenerator.generate"}) < 2
  /\ ~BreakdownGenerator_raises(script)
  /\ breakdown' = BreakdownGenerator_generate(script, hash_order)
  /\ pc' = "breakdown_made"
  /\ trace' = Append(trace, "BreakdownGenerator.generate")
  /\ UNCHANGED << brief, loop, hash_order, script, storyboard, production_notes,
                  postprod_notes, valid, issues, self_check, errors, output_files,
                  disk, success, passed >>

\* the program ends and is started again: a new interpreter draws a new seed
\* for its string hashes (PYTHONHASHSEED is random unless set)
RestartInterpreter ==
  /\ pc = "breakdown_made"
  /\ \A i \in 1..Len(trace) : trace[i] # "restart"
  /\ hash_order' \in HashOrders
  /\ trace' = Append(trace, "restart")
  /\ UNCHANGED << pc, brief, loop, locals, valid, issues, self_check, errors,
                  output_files, disk, success, passed >>

NextBreakdown ==
  \/ GenerateBreakdownInInterpreter
  \/ RestartInterpreter

SpecBreakdown == InitBreakdown /\ [][NextBreakdown]_vars

(***************************************************************************)
(* Properties of BreakdownGenerator (checked under SpecBreakdown)          *)
(***************************************************************************)
\* C21: generating a Breakdown again from the same Script gives identical
\* entries, field for field, the order of each character list and of the
\* wardrobe list included, also for scenes with two or more speakers.
C21_RegeneratedBreakdownIdentical ==
  [][(Called("BreakdownGenerator.generate") /\ breakdown # Unset)
       => breakdown' = breakdown]_vars

PropCount(entry, what) ==
  Cardinality({k \in 1..Len(entry.props) : entry.props[k].description = what})

MentionsDrink(scene) ==
  \E k \in 1..Len(scene.dialogues) : "drink" \in scene.dialogues[k].text.kw

CupInDescription(scene) == DescHas(scene, "coffee") \/ DescHas(scene, "cup")

\* C24: an entry's props hold 'Beverage' exactly when a line of the scene
\* mentions 'drink' and no 'Coffee cup' came from the description; never
\* both 'Coffee cup' and 'Beverage'; at most one 'Beverage' however many
\* lines mention 'drink'.
C24_BeverageIffDrinkWithoutCoffeeCup ==
  breakdown # Unset =>
    \A i \in 1..Len(breakdown.entries) :
      LET entry == breakdown.entries[i]
          scene == script.scenes[i]
      IN  /\ PropCount(entry, "Beverage") > 0
               <=> (MentionsDrink(scene) /\ ~CupInDescription(scene))
          /\ ~(PropCount(entry, "Coffee cup") > 0 /\ PropCount(entry, "Beverage") > 0)
          /\ PropCount(entry, "Beverage") <= 1

(***************************************************************************)
(* to_json / from_json of Script, Breakdown and Storyboard (models/*.py)   *)
(*                                                                         *)
(* A JSON text is written as the tree of its values.  An enum member is    *)
(* written in the model as its value; an absent str is "None", an absent   *)
(* int is None.                                                            *)
(***************************************************************************)
JStr(x) == [type |-> "string", v |-> x]

JNum(n) == [type |-> "number", v |-> n]

JBool(b) == [type |-> "bool", v |-> b]

JNull == [type |-> "null"]

\* json.dumps / json.loads of an Optional[str] and of an Optional[int]
DumpOptStr(a) == IF a = "None" THEN JNull ELSE JStr(a)

LoadOptStr(j) == IF j.type = "null" THEN "None" ELSE j.v

DumpOptInt(o) == IF o = None THEN JNull ELSE JNum(o[1])

LoadOptInt(j) == IF j.type = "null" THEN None ELSE Some(j.v)

\* data.get(key, []) of from_dict
GetList(data, key) == IF key \in DOMAIN data THEN data[key] ELSE <<>>

\* Enum(value): the member with that value, ValueError when there is none
EnumOf(values, v) == IF v \in values THEN v ELSE "ValueError"

LocationTypes == {"INT", "EXT"}

TimesOfDay == {"DAY", "NIGHT", "DAWN", "DUSK"}

ShotSizes == {"EWS", "WS", "MS", "CU", "ECU"}

CameraMovements == {"Static", "Pan", "Tilt", "Dolly", "Tracking", "Handheld", "Crane"}

\* asdict(dialogue), asdict(scene), asdict(char), asdict(flag) as JSON
Dialogue_asdict(d) ==
  [character |-> JStr(d.character), text |-> JStr(d.text), action |-> DumpOptStr(d.action)]

Scene_asdict(sc) ==
  [scene_number |-> JNum(sc.scene_number), location |-> JStr(sc.location),
   time_of_day |-> JStr(sc.time_of_day), interior_exterior |-> JStr(sc.interior_exterior),
   description |-> JStr(sc.description),
   dialogues |-> [k \in 1..Len(sc.dialogues) |-> Dialogue_asdict(sc.dialogues[k])],
   estimated_duration_seconds |-> DumpOptInt(sc.estimated_duration_seconds),
   is_hook |-> JBool(sc.is_hook)]

Character_asdict(c) ==
  [name |-> JStr(c.name), description |-> JStr(c.description), age_range |-> JStr(c.age_range)]

CostFlag_asdict(f) ==
  [element_type |-> JStr(f.element_type), description |-> JStr(f.scene),
   estimated_complexity |-> JStr(f.estimated_complexity)]

Script_to_json(sc) ==
  [title |-> JStr(sc.title), genre |-> JStr(sc.genre), platform |-> JStr(sc.platform),
   target_duration_seconds |-> JNum(sc.target_duration_seconds),
   target_audience |-> JStr(sc.target_audience),
   characters |-> [k \in 1..Len(sc.characters) |-> Character_asdict(sc.characters[k])],
   scenes |-> [k \in 1..Len(sc.scenes) |-> Scene_asdict(sc.scenes[k])],
   cost_flags |-> [k \in 1..Len(sc.cost_flags) |-> CostFlag_asdict(sc.cost_flags[k])]]

\* Dialogue(**d)
Dialogue_from(d) == Dialogue(d.character.v, d.text.v, LoadOptStr(d.action))

\* mutation: the is_hook of the file is not passed on (the default is False)
Scene_from_default_hook(sc) ==
  LET dlgs == GetList(sc, "dialogues")
  IN  Scene(sc.scene_number.v, sc.location.v, sc.time_of_day.v, sc.interior_exterior.v,
            sc.description.v, [k \in 1..Len(dlgs) |-> Dialogue_from(dlgs[k])],
            LoadOptInt(sc.estimated_duration_seconds), FALSE)

\* Scene(**{**scene, "dialogues": [Dialogue(**d) ...]})
Scene_from(sc) ==
  LET dlgs == GetList(sc, "dialogues")
  IN  Scene(sc.scene_number.v, sc.location.v, sc.time_of_day.v, sc.interior_exterior.v,
            sc.description.v, [k \in 1..Len(dlgs) |-> Dialogue_from(dlgs[k])],
            LoadOptInt(sc.estimated_duration_seconds), sc.is_hook.v)

Script_from_json(data) ==
  LET chars == GetList(data, "characters")
      scenes == GetList(data, "scenes")
      flags == GetList(data, "cost_flags")
  IN  [title |-> data.title.v, genre |-> data.genre.v,
       platform |-> EnumOf(Platforms, data.platform.v),
       target_duration_seconds |-> data.target_duration_seconds.v,
       target_audience |-> data.target_audience.v,
       characters |-> [k \in 1..Len(chars) |->
                         Character(chars[k].name.v, chars[k].description.v,
                                   chars[k].age_range.v)],
       scenes |-> [k \in 1..Len(scenes) |-> Scene_from(scenes[k])],
       cost_flags |-> [k \in 1..Len(flags) |->
                         CostFlag(flags[k].element_type.v, flags[k].description.v,
                                  flags[k].estimated_complexity.v)]]

\* asdict(element); the description of a costume is "<character> costume"
ProductionElement_asdict(p) ==
  [element_type |-> JStr(p.element_type), description |-> JStr(<< p.subject, p.description >>),
   quantity |-> JNum(p.quantity), notes |-> DumpOptStr(p.notes)]

\* ProductionElement(**p)
ProductionElement_from(p) ==
  [element_type |-> p.element_type.v, description |-> p.description.v[2],
   subject |-> p.description.v[1], quantity |-> p.quantity.v, notes |-> LoadOptStr(p.notes)]

Elements_asdict(ps) == [k \in 1..Len(ps) |-> ProductionElement_asdict(ps[k])]

Elements_from(e, key) ==
  LET ps == GetList(e, key) IN [k \in 1..Len(ps) |-> ProductionElement_from(ps[k])]

BreakdownEntry_to_dict(e) ==
  [scene_number |-> JNum(e.scene_number), scene_description |-> JStr(e.scene_description),
   location |-> JStr(e.location), location_type |-> JStr(e.location_type),
   time_of_day |-> JStr(e.time_of_day),
   characters |-> [k \in 1..Len(e.characters) |-> JStr(e.characters[k])],
   props |-> Elements_asdict(e.props), wardrobe |-> Elements_asdict(e.wardrobe),
   makeup |-> Elements_asdict(e.makeup),
   special_requirements |-> Elements_asdict(e.special_requirements),
   estimated_setup_time_minutes |-> JNum(e.estimated_setup_time_minutes)]

Breakdown_to_json(b) ==
  [script_title |-> JStr(b.script_title),
   entries |-> [k \in 1..Len(b.entries) |-> BreakdownEntry_to_dict(b.entries[k])]]

BreakdownEntry_from(e) ==
  LET chars == GetList(e, "characters")
  IN  [scene_number |-> e.scene_number.v, scene_description |-> e.scene_description.v,
       location |-> e.location.v,
       location_type |-> EnumOf(LocationTypes, e.location_type.v),
       time_of_day |-> EnumOf(TimesOfDay, e.time_of_day.v),
       characters |-> [k \in 1..Len(chars) |-> chars[k].v],
       props |-> Elements_from(e, "props"), wardrobe |-> Elements_from(e, "wardrobe"),
       makeup |-> Elements_from(e, "makeup"),
       special_requirements |-> Elements_from(e, "special_requirements"),
       estimated_setup_time_minutes |-> e.estimated_setup_time_minutes.v]

Breakdown_from_json(data) ==
  LET es == GetList(data, "entries")
  IN  [script_title |-> data.script_title.v,
       entries |-> [k \in 1..Len(es) |-> BreakdownEntry_from(es[k])]]

Shot_to_dict(sh) ==
  [shot_id |-> JStr(sh.shot_id), scene_number |-> JNum(sh.scene_number),
   shot_size |-> JStr(sh.shot_size), camera_position |-> JStr(sh.camera_position),
   camera_movement |-> JStr(sh.camera_movement),
   visual_description |-> JStr(sh.visual_description),
   suggested_duration_seconds |-> JNum(sh.suggested_duration_seconds),
   audio_notes |-> DumpOptStr(sh.audio_notes)]

Storyboard_to_json(sb) ==
  [script_title |-> JStr(sb.script_title),
   target_duration_seconds |-> JNum(sb.target_duration_seconds),
   shots |-> [k \in 1..Len(sb.shots) |-> Shot_to_dict(sb.shots[k])]]

\* Shot(shot_id=s["shot_id"], ..., audio_notes=s.get("audio_notes"))
Shot_from(s) ==
  [shot_id |-> s.shot_id.v, scene_number |-> s.scene_number.v,
   shot_size |-> EnumOf(ShotSizes, s.shot_size.v), camera_position |-> s.camera_position.v,
   camera_movement |-> EnumOf(CameraMovements, s.camera_movement.v),
   visual_description |-> s.visual_description.v,
   suggested_duration_seconds |-> s.suggested_duration_seconds.v,
   audio_notes |-> IF "audio_notes" \in DOMAIN s THEN LoadOptStr(s.audio_notes) ELSE "None"]

Storyboard_from_json(data) ==
  LET shots == GetList(data, "shots")
  IN  [script_title |-> data.script_title.v,
       target_duration_seconds |-> data.target_duration_seconds.v,
       shots |-> [k \in 1..Len(shots) |-> Shot_from(shots[k])]]

(***************************************************************************)
(* The three artifacts written as JSON and read back                       *)
(***************************************************************************)
\* any Script: hand-made ones with two speakers, generated ones for every
\* platform, and ones that fail validate()
JsonTargets == {30, 60}

JsonBreakdownEdits == {"append_next", "no_characters"}

JsonStoryboardEdits == {"target_zero", "foreign_scene"}

IsJsonScript(sc) ==
  \/ \E n \in 1..MaxScenes : \E dlg \in [1..n -> BreakdownDialogues] :
       sc = [HandScript([i \in 1..n |->
                           Scene(i, "Train Station Platform", "DAY", "INT",
                                 Txt(9, 48, {"coffee"}), dlg[i], Some(30), i = 1)])
               EXCEPT !.characters =
                 << Character("Elena", "Determined protagonist", "25-35"),
                    Character("Marcus", "Old friend", "25-35") >>]
  \/ \E g \in Genres, t \in JsonTargets, p \in Platforms :
       sc = ScriptGenerator_generate("Test Drama", g, p, t, "Adults")
  \/ \E d \in Defects : sc = WithDefect(HandScript(<< HandScene(1, TRUE, None, <<>>) >>), d)

InitJson ==
  /\ pc = "script_made"
  /\ IsJsonScript(script)
  /\ hash_order = NameOrderA
  /\ brief = Unset /\ breakdown = Unset /\ storyboard = Unset
  /\ production_notes = Unset /\ postprod_notes = Unset
  /\ valid = TRUE /\ issues = <<>> /\ self_check = Ok
  /\ errors = <<>> /\ output_files = <<>>
  /\ dir_exists = FALSE /\ files = {}
  /\ success = FALSE
  /\ trace = <<>>
  /\ passed = {}
  /\ NoLoop

JsonFrame ==
  UNCHANGED << brief, loop, hash_order, production_notes, postprod_notes, valid, issues,
               self_check, errors, output_files, dir_exists, success, passed >>

Written(name) == \E f \in files : f.name = name

WasRead(call) == \E i \in 1..Len(trace) : trace[i] = call

\* breakdown = BreakdownGenerator().generate(script), which the caller may edit
JsonMakeBreakdown ==
  /\ pc = "script_made" /\ ~BreakdownGenerator_raises(script)
  /\ \/ breakdown' = BreakdownGenerator_generate(script, hash_order)
     \/ \E e \in JsonBreakdownEdits :
          breakdown' = EditedBreakdown(BreakdownGenerator_generate(script, hash_order), e)
  /\ pc' = "breakdown_made"
  /\ trace' = Append(trace, "BreakdownGenerator.generate")
  /\ UNCHANGED << script, storyboard, files >>
  /\ JsonFrame

\* storyboard = StoryboardGenerator().generate(script, breakdown), which the
\* caller may edit
JsonMakeStoryboard ==
  /\ pc = "breakdown_made" /\ ~StoryboardGenerator_raises(script, breakdown)
  /\ \/ storyboard' = StoryboardGenerator_generate(script, breakdown)
     \/ \E e \in JsonStoryboardEdits :
          storyboard' = EditedStoryboard(StoryboardGenerator_generate(script, breakdown), e)
  /\ pc' = "storyboard_made"
  /\ trace' = Append(trace, "StoryboardGenerator.generate")
  /\ UNCHANGED << script, breakdown, files >>
  /\ JsonFrame

\* path.write_text(script.to_json())
WriteScriptJson ==
  /\ pc = "script_made" /\ ~Written("script")
  /\ files' = files \cup {[name |-> "script", text |-> Script_to_json(script)]}
  /\ trace' = Append(trace, "Script.to_json")
  /\ UNCHANGED << pc, locals >>
  /\ JsonFrame

\* script = Script.from_json(path.read_text())
ReadScriptJson ==
  /\ pc = "script_made" /\ ~WasRead("Script.from_json")
  /\ \E f \in files : f.name = "script" /\ script' = Script_from_json(f.text)
  /\ trace' = Append(trace, "Script.from_json")
  /\ UNCHANGED << pc, breakdown, storyboard, files >>
  /\ JsonFrame

\* path.write_text(breakdown.to_json())
WriteBreakdownJson ==
  /\ pc = "breakdown_made" /\ ~Written("breakdown")
  /\ files' = files \cup {[name |-> "breakdown", text |-> Breakdown_to_json(breakdown)]}
  /\ trace' = Append(trace, "Breakdown.to_json")
  /\ UNCHANGED << pc, locals >>
  /\ JsonFrame

\* breakdown = Breakdown.from_json(path.read_text())
ReadBreakdownJson ==
  /\ pc = "breakdown_made" /\ ~WasRead("Breakdown.from_json")
  /\ \E f \in files : f.name = "breakdown" /\ breakdown' = Breakdown_from_json(f.text)
  /\ trace' = Append(trace, "Breakdown.from_json")
  /\ UNCHANGED << pc, script, storyboard, files >>
  /\ JsonFrame

\* path.write_text(storyboard.to_json())
WriteStoryboardJson ==
  /\ pc = "storyboard_made" /\ ~Written("storyboard")
  /\ files' = files \cup {[name |-> "storyboard", text |-> Storyboard_to_json(storyboard)]}
  /\ trace' = Append(trace, "Storyboard.to_json")
  /\ UNCHANGED << pc, locals >>
  /\ JsonFrame

\* storyboard = Storyboard.from_json(path.read_text())
ReadStoryboardJson ==
  /\ pc = "storyboard_made" /\ ~WasRead("Storyboard.from_json")
  /\ \E f \in files : f.name = "storyboard" /\ storyboard' = Storyboard_from_json(f.text)
  /\ trace' = Append(trace, "Storyboard.from_json")
  /\ UNCHANGED << pc, script, breakdown, files >>
  /\ JsonFrame

NextJson ==
  \/ JsonMakeBreakdown
  \/ JsonMakeStoryboard
  \/ WriteScriptJson
  \/ ReadScriptJson
  \/ WriteBreakdownJson
  \/ ReadBreakdownJson
  \/ WriteStoryboardJson
  \/ ReadStoryboardJson

SpecJson == InitJson /\ [][NextJson]_vars

(***************************************************************************)
(* Properties of the JSON round trip (checked under SpecJson)              *)
(***************************************************************************)
\* C22: reading back the JSON text of a Script gives a Script equal to the
\* original field for field (platform, characters, scenes with their
\* dialogues, absent optional fields, is_hook, cost flags), and the same
\* holds for a Breakdown and for a Storyboard with their enum fields.
C22_JsonRoundTrips ==
  [][/\ Called("Script.from_json") => script' = script
     /\ Called("Breakdown.from_json") => breakdown' = breakdown
     /\ Called("Storyboard.from_json") => storyboard' = storyboard]_vars

\* all three were read back: a two-scene Script with an absent estimate or
\* an absent action, a Breakdown with two characters in an entry, a
\* Storyboard with a close-up
C22_Witness ==
  /\ WasRead("Script.from_json") /\ WasRead("Breakdown.from_json")
  /\ WasRead("Storyboard.from_json")
  /\ Len(script.scenes) = 2 /\ script.scenes[1].is_hook
  /\ \E i \in 1..Len(script.scenes) : \E k \in 1..Len(script.scenes[i].dialogues) :
       script.scenes[i].dialogues[k].action = "None"
  /\ \E i \in 1..Len(breakdown.entries) : Len(breakdown.entries[i].characters) = 2
  /\ \E k \in 1..Len(storyboard.shots) : storyboard.shots[k].shot_size = "CU"

(***************************************************************************)
(* StoryboardGenerator.generate on scenes with few and with many lines     *)
(***************************************************************************)
\* none, one, three or twenty-six lines
ShotDialogues ==
  { [k \in 1..n |-> StageLine] : n \in {0, 1, 3, 26} }

ShotEstimates == {None, Some(30)}

ShotGenres == {"Drama", "Comedy", "Horror"}

\* which scenes are marked as the hook
ShotHooks == {"first", "second", "all"}

IsShotScript(sc) ==
  \/ \E n \in 1..MaxScenes :
       \E est \in [1..n -> ShotEstimates], dlg \in [1..n -> ShotDialogues],
          g \in ShotGenres, same_number \in BOOLEAN, hooks \in ShotHooks :
         sc = [HandScript([i \in 1..n |->
                             HandScene(IF same_number THEN 1 ELSE i,
                                       \/ hooks = "all"
                                       \/ hooks = "first" /\ i = 1
                                       \/ hooks = "second" /\ i = 2,
                                       est[i], dlg[i])])
                 EXCEPT !.genre = g]
  \/ IsGeneratedStageScript(sc)

InitShots ==
  /\ pc = "validated"
  /\ IsShotScript(script)
  /\ brief = Unset /\ breakdown = Unset /\ storyboard = Unset
  /\ production_notes = Unset /\ postprod_notes = Unset
  /\ valid = TRUE /\ issues = <<>> /\ self_check = Ok
  /\ errors = <<>> /\ output_files = <<>>
  /\ dir_exists = FALSE /\ files = {}
  /\ success = FALSE
  /\ trace = <<>>
  /\ passed = {}
  /\ hash_order = NameOrderA /\ NoLoop

\* the caller passes a valid Breakdown it holds already, here the one of the
\* same scenes numbered 1, 2, ... with a line of dialogue each
OtherBreakdown(sc) ==
  BreakdownGenerator_generate(
    [sc EXCEPT !.scenes = [i \in 1..Len(sc.scenes) |->
                             [sc.scenes[i] EXCEPT !.dialogues = << StageLine >>,
                                                  !.scene_number = i]]],
    NameOrderA)

PassOtherBreakdown ==
  /\ pc = "validated" /\ ~BreakdownGenerator_raises(script)
  /\ breakdown' = OtherBreakdown(script)
  /\ pc' = "breakdown_checked"
  /\ trace' = Append(trace, "other_breakdown")
  /\ UNCHANGED << brief, loop, hash_order, script, storyboard, production_notes,
                  postprod_notes, valid, issues, self_check, errors, output_files,
                  disk, success, passed >>

NextShots ==
  \/ CallBreakdownGenerate
  \/ PassOtherBreakdown
  \/ CallValidateAgainstScript
  \/ CallStoryboardGenerate
  \/ CallCheckContinuity
  \/ CallProductionAdvisory
  \/ CallPostProductionAdvisory

SpecShots == InitShots /\ [][NextShots]_vars

(***************************************************************************)
(* Properties of the generated shots (checked under SpecShots)             *)
(***************************************************************************)
Alphabet == << "A", "B", "C", "D", "E", "F", "G", "H", "I", "J", "K", "L", "M", "N",
              "O", "P", "Q", "R", "S", "T", "U", "V", "W", "X", "Y", "Z" >>

RECURSIVE ShotsBefore(_, _)
\* the number of shots generated for the scenes before scene i
ShotsBefore(sc, i) ==
  IF i = 1 THEN 0
  ELSE ShotsBefore(sc, i - 1) + Len(generate_shots_for_scene(sc.scenes[i - 1], sc))

Generated == storyboard # Unset /\ pc \in {"storyboard_made", "continuity_checked"}

\* C23: the shots come in the order of the script's scenes; a scene with
\* d >= 1 lines gets 2 shots when it is the hook (A: medium, static; B: a
\* close-up on the speaker of the first line) and 1 + d shots otherwise (A:
\* wide, then one per line, medium, close-up, medium, ... by the parity of
\* the index); the ids are the scene number followed by the letters A, B,
\* C, ... in that order, and every shot has its scene's number.
C23_ShotsPerSceneAndLetters ==
  Generated =>
    \A i \in 1..Len(script.scenes) :
      LET scene == script.scenes[i]
          d == Len(scene.dialogues)
          first == ShotsBefore(script, i)
          count == IF i = Len(script.scenes) THEN Len(storyboard.shots) - first
                   ELSE ShotsBefore(script, i + 1) - first
          shot(k) == storyboard.shots[first + k]
      IN  /\ \A k \in 1..count : shot(k).scene_number = scene.scene_number
          /\ d >= 1 =>
               /\ count = IF scene.is_hook THEN 2 ELSE 1 + d
               /\ \A k \in 1..count :
                    /\ k <= Len(Alphabet)
                    /\ shot(k).shot_id = << scene.scene_number, Alphabet[k] >>
               /\ IF scene.is_hook
                  THEN /\ shot(1).shot_size = "MS" /\ shot(1).camera_movement = "Static"
                       /\ shot(2).shot_size = "CU"
                       /\ shot(2).camera_position[2] = scene.dialogues[1].character
                  ELSE /\ shot(1).shot_size = "WS"
                       /\ \A k \in 2..count :
                            shot(k).shot_size = IF k % 2 = 0 THEN "MS" ELSE "CU"

\* C30: check_continuity never reports a potential jump cut for a
\* Storyboard returned by StoryboardGenerator.generate for a valid Script
\* and Breakdown: no two consecutive generated shots of one scene have the
\* same size, and a generated storyboard in which consecutive shots with
\* the same scene number do coincide is rejected by its self-check first.
C30_NoJumpCutForGeneratedStoryboard ==
  (Generated /\ pc = "continuity_checked") =>
    /\ \A i \in 1..Len(issues) : ~IsJumpCut(issues[i])
    /\ \A i \in 1..Len(script.scenes) :
         LET first == ShotsBefore(script, i)
             count == IF i = Len(script.scenes) THEN Len(storyboard.shots) - first
                      ELSE ShotsBefore(script, i + 1) - first
         IN  \A k \in 2..count :
               storyboard.shots[first + k - 1].shot_size
                 # storyboard.shots[first + k].shot_size
    /\ JumpCuts(storyboard) # {} => ~Storyboard_validate(storyboard).valid

\* a regular scene of three lines, shot and found continuous
C30_Witness ==
  /\ Generated /\ pc = "continuity_checked" /\ valid
  /\ \E i \in 1..Len(script.scenes) :
       ~script.scenes[i].is_hook /\ Len(script.scenes[i].dialogues) = 3

\* two scenes with the same number whose single shots coincide: rejected
\* for the duplicate id, not for a jump cut
C30_WitnessCoinciding ==
  /\ Generated /\ pc = "continuity_checked" /\ ~valid
  /\ JumpCuts(storyboard) # {}

HasHookScene(sc) == \E i \in 1..Len(sc.scenes) : sc.scenes[i].is_hook

\* C25: the editing suggestions hold the hook-optimization item exactly
\* when the script has a hook scene (in a valid Script the first or the
\* second scene), the short-form pacing item exactly when the target
\* duration is at most 60, and always one transitions item, in that order.
C25_EditingItemsByHookAndDuration ==
  (pc = "postprod_notes_made" /\ Script_validate(script).valid) =>
    [k \in 1..Len(postprod_notes.editing_suggestions) |->
       postprod_notes.editing_suggestions[k].description]
      = (IF HasHookScene(script) THEN << "Hook optimization for retention" >> ELSE <<>>)
        \o (IF script.target_duration_seconds <= 60
            THEN << "Short-form pacing and rhythm" >> ELSE <<>>)
        \o << "Scene transitions and flow" >>

(***************************************************************************)
(* Properties of the workflow's script and of its error branch (checked    *)
(* under Spec)                                                             *)
(***************************************************************************)
SecondsOf(scene) == scene.estimated_duration_seconds[1]

\* C28: for every target duration in 30..120 every scene made by
\* ScriptGenerator has a strictly positive estimated duration: the hook 5
\* seconds, the development scene (when present) at least 20 and the
\* resolution scene at least 20; a resolution of zero or less seconds
\* occurs only for targets outside 30..120.
C28_GeneratedDurationsPositive ==
  (script # Unset
     /\ brief.target_duration_seconds \in MinDuration..MaxDuration) =>
    LET scenes == script.scenes
        n == Len(scenes)
    IN  /\ \A i \in 1..n : scenes[i].estimated_duration_seconds # None
                             /\ SecondsOf(scenes[i]) > 0
        /\ SecondsOf(scenes[1]) = 5
        /\ n = 3 => SecondsOf(scenes[2]) >= 20
        /\ SecondsOf(scenes[n]) >= 20

\* target 45: hook 5, development 20, resolution 20
C28_Witness ==
  /\ script # Unset /\ brief.target_duration_seconds = 45
  /\ Len(script.scenes) = 3
  /\ SecondsOf(script.scenes[2]) = 20 /\ SecondsOf(script.scenes[3]) = 20

\* target 5: the resolution scene is given 0 seconds
C28_WitnessOutside ==
  /\ script # Unset /\ brief.target_duration_seconds = 5
  /\ SecondsOf(script.scenes[Len(script.scenes)]) = 0

IsWorkflowError(e) == e.msg = "Workflow error"

\* C29: inside execute_full_workflow the generators never raise for an
\* invalid input: BreakdownGenerator.generate is called only with a Script
\* that passed the script gate, StoryboardGenerator.generate only with a
\* Script and a Breakdown that passed their gates; a run ends through a
\* gate result or success and takes the 'Workflow error' branch only when
\* creating the directory or writing a file fails.
C29_WorkflowErrorOnlyFromFileWrites ==
  [][/\ Called("generate_breakdown") =>
          "validate_script" \in passed /\ ~BreakdownGenerator_raises(script)
     /\ Called("generate_storyboard") =>
          /\ "validate_breakdown" \in passed
          /\ ~StoryboardGenerator_raises(script, breakdown)
     /\ (errors' # errors /\ IsWorkflowError(errors'[Len(errors')])) =>
          pc \in WriteSteps]_vars

\* both generators ran on checked input and the run ended in the error
\* branch for a shot list that could not be written
C29_Witness ==
  /\ pc = "done" /\ ~success
  /\ LastStep = "write_shotlist"
  /\ Len(errors) = 1 /\ IsWorkflowError(errors[1])
  /\ storyboard # Unset

(***************************************************************************)
(* state_parser.py, state_writer.py : the state file                       *)
(*                                                                         *)
(* The file is the sequence of its non-blank lines.  A line is a header    *)
(* ("# Name"), a line of text, or a history line ("- Iteration n: ...");   *)
(* kw holds those of the words detect_mode looks for that the line has.    *)
(***************************************************************************)
Header(name) == [kind |-> "header", text |-> name, it |-> 0, kw |-> {}]

TextLine(text, kw) == [kind |-> "text", text |-> text, it |-> 0, kw |-> kw]

\* f"- Iteration {n}: {mode} mode executed"
HistoryLine(n, mode) ==
  [kind |-> "history", text |-> mode, it |-> n,
   kw |-> IF mode = "BLOCKED" THEN {"blocked"} ELSE {}]

SectionNames == << "Goal", "Current task", "Constraints", "Iteration History", "Status" >>

\* the lines matched by  ^#\s+Name\s*\n(.*?)(?=\n#|\Z)  : from the line
\* after the first such header up to the line before the next line that
\* starts with "#"; the line right after the header belongs to the match
\* even when it is a header itself
SectionEnd(f, h) ==
  LET nexts == {j \in (h + 2)..Len(f) : f[j].kind = "header"}
  IN  IF nexts = {} THEN Len(f) ELSE (CHOOSE j \in nexts : \A k \in nexts : j <= k) - 1

SectionStart(f, name) ==
  LET hs == {j \in 1..Len(f) : f[j].kind = "header" /\ f[j].text = name}
  IN  IF hs = {} THEN 0 ELSE CHOOSE j \in hs : \A k \in hs : j <= k

\* StateParser._extract_section
extract_section(f, name) ==
  LET h == SectionStart(f, name)
  IN  IF h = 0 THEN <<>> ELSE SubSeq(f, h + 1, SectionEnd(f, h))

\* StateParser.parse_content
parse_content(f) ==
  [goal |-> extract_section(f, "Goal"),
   current_task |-> extract_section(f, "Current task"),
   constraints |-> extract_section(f, "Constraints"),
   iteration_history |-> extract_section(f, "Iteration History"),
   status |-> extract_section(f, "Status")]

\* StateWriter._update_section: the matched lines replaced, or the section
\* appended when there is no such header
update_section(f, name, new_value) ==
  LET h == SectionStart(f, name)
  IN  IF h = 0 THEN f \o << Header(name) >> \o new_value
      ELSE SubSeq(f, 1, h) \o new_value \o SubSeq(f, SectionEnd(f, h) + 1, Len(f))

(***************************************************************************)
(* loop_controller.py : LoopController                                     *)
(***************************************************************************)
StatusWords(status) == UNION {status[k].kw : k \in 1..Len(status)}

\* mutation: a blocked state is taken for engineering work
detect_mode_never_blocked(state) ==
  LET words == StatusWords(state.status)
  IN  IF {"tests", "passing", "complete"} \subseteq words THEN "CREATIVE"
      ELSE "ENGINEERING"

detect_mode(state) ==
  LET words == StatusWords(state.status)
  IN  IF "blocker" \in words \/ "blocked" \in words THEN "BLOCKED"
      ELSE IF {"tests", "passing", "complete"} \subseteq words THEN "CREATIVE"
      ELSE "ENGINEERING"

\* what the work function does: there is none, it reports passing or failing
\* tests, or it raises
WorkOutcomes == {"no_work_function", "tests_passing", "tests_failing", "raises"}

\* ReportGenerator.generate_report, without the date
generate_report(iteration, mode, work, state) ==
  [iteration |-> iteration, status |-> mode,
   what_i_did |-> IF work = "no_work_function" THEN "Executed iteration cycle"
                  ELSE "Executed work in mode",
   tests_passing |-> work # "tests_failing",
   blockers |-> IF work # "tests_failing" THEN "NONE" ELSE "Test failures detected",
   notes |-> state.current_task]

IterationResult(ok, error, sf, rf, n) ==
  [ok |-> ok, error |-> error, state_file |-> sf, report_file |-> rf,
   current_iteration |-> n]

\* LoopController.execute_iteration on the state file sf, the report file rf
\* and the counter n: every result it can have, the work function and the
\* two file writes being free to fail
execute_iteration(sf, rf, n) ==
  IF sf = None THEN {IterationResult(FALSE, "Failed to read state", sf, rf, n)}
  ELSE LET state == parse_content(sf[1])
           mode == detect_mode(state)
           new_history == Append(state.iteration_history, HistoryLine(n + 1, mode))
       IN  {IterationResult(FALSE, "Work function failed", sf, rf, n)}
           \cup UNION {
             LET report == generate_report(n + 1, mode, work, state)
             IN  {IterationResult(FALSE, "Failed to save report", sf, rf, n + 1),
                  IterationResult(FALSE, "Failed to update state", sf, Some(report), n + 1),
                  IterationResult(TRUE, "None",
                                  Some(update_section(sf[1], "Iteration History",
                                                      new_history)),
                                  Some(report), n + 1)}
             : work \in WorkOutcomes \ {"raises"}}

(***************************************************************************)
(* One LoopController: direct execute_iteration calls, one run_loop call,  *)
(* and another process that edits or removes the state file                *)
(***************************************************************************)
MaxIterations == 2

FirstHistory == HistoryLine(1, "Initial")

Statuses ==
  { <<>>,
    << TextLine("Tests: passing", {"tests", "passing"}) >>,
    << TextLine("Tests: passing", {"tests", "passing"}),
       TextLine("Engineering work: complete", {"complete"}) >>,
    << TextLine("Blocked: waiting for access", {"blocked"}) >>,
    << TextLine("Tests: passing", {"tests", "passing"}),
       TextLine("Blocker: review pending", {"blocker"}) >> }

\* the layout of the repository's state file
StateFile(history_section, status) ==
  << Header("Goal"), TextLine("goal", {}),
     Header("Current task"), TextLine("task", {}),
     Header("Constraints"), TextLine("constraints", {}) >>
  \o history_section \o << Header("Status") >> \o status

StateFiles ==
  {None} \cup
  { Some(StateFile(h, st)) :
      h \in { <<>>, << Header("Iteration History") >>,
              << Header("Iteration History"), FirstHistory >> },
      st \in Statuses }

Count(what) == Cardinality({k \in 1..Len(trace) : trace[k] = what})

\* the Status section of the state file names a blocker
StatusSaysBlocked(f) ==
  \E k \in 1..Len(extract_section(f, "Status")) :
     extract_section(f, "Status")[k].kw \cap {"blocker", "blocked"} # {}

InitLoop ==
  /\ pc = "idle"
  /\ state_file \in StateFiles
  /\ report_file = None
  /\ current_iteration = 0
  /\ loop_i = 0 /\ max_iterations = 0 /\ loop_result = None /\ successes = 0
  /\ passed = IF state_file # None /\ StatusSaysBlocked(state_file[1])
              THEN {"blocked_at_start"} ELSE {}
  /\ trace = <<>>
  /\ brief = Unset /\ script = Unset /\ breakdown = Unset /\ storyboard = Unset
  /\ production_notes = Unset /\ postprod_notes = Unset
  /\ valid = TRUE /\ issues = <<>> /\ self_check = Ok
  /\ errors = <<>> /\ output_files = <<>>
  /\ dir_exists = FALSE /\ files = {}
  /\ success = FALSE
  /\ hash_order = NameOrderA

LoopFrame ==
  UNCHANGED << brief, hash_order, locals, valid, issues, self_check, errors,
               output_files, disk, success, passed >>

\* controller.execute_iteration(work_function), called by the user
CallExecuteIteration ==
  /\ pc = "idle" /\ Count("execute_iteration") = 0
  /\ \E o \in execute_iteration(state_file, report_file, current_iteration) :
       /\ state_file' = o.state_file
       /\ report_file' = o.report_file
       /\ current_iteration' = o.current_iteration
       /\ loop_result' = Some([ok |-> o.ok, error |-> o.error, at |-> 0])
       /\ successes' = IF o.ok THEN successes + 1 ELSE successes
  /\ trace' = Append(trace, "execute_iteration")
  /\ UNCHANGED << pc, loop_i, max_iterations >>
  /\ LoopFrame

\* controller.run_loop(max_iterations=n, work_function): the call
CallRunLoop ==
  /\ pc = "idle" /\ Count("run_loop") = 0
  /\ max_iterations' \in (0 - 1)..MaxIterations
  /\ loop_i' = 0
  /\ pc' = "loop_top"
  /\ trace' = Append(trace, "run_loop")
  /\ UNCHANGED << current_iteration, state_file, report_file, loop_result, successes >>
  /\ LoopFrame

\* for i in range(max_iterations): success, error = self.execute_iteration(...)
\* and the return of a failed iteration
LoopExecuteIteration ==
  /\ pc = "loop_top" /\ loop_i < max_iterations
  /\ \E o \in execute_iteration(state_file, report_file, current_iteration) :
       /\ state_file' = o.state_file
       /\ report_file' = o.report_file
       /\ current_iteration' = o.current_iteration
       /\ successes' = IF o.ok THEN successes + 1 ELSE successes
       /\ IF o.ok
          THEN pc' = "loop_read_state" /\ UNCHANGED loop_result
          ELSE /\ pc' = "idle"
               /\ loop_result' = Some([ok |-> FALSE, error |-> "Iteration failed",
                                       at |-> loop_i + 1])
  /\ trace' = Append(trace, "run_loop.execute_iteration")
  /\ UNCHANGED << loop_i, max_iterations >>
  /\ LoopFrame

\* success, state, error = self.read_state(); the stop in blocked mode
LoopReadState ==
  /\ pc = "loop_read_state"
  /\ IF state_file = None
     THEN /\ pc' = "idle"
          /\ loop_result' = Some([ok |-> FALSE,
                                  error |-> "Failed to read state after iteration",
                                  at |-> loop_i + 1])
          /\ UNCHANGED loop_i
     ELSE IF detect_mode(parse_content(state_file[1])) = "BLOCKED"
     THEN /\ pc' = "idle"
          /\ loop_result' = Some([ok |-> TRUE,
                                  error |-> "Loop stopped: System is blocked",
                                  at |-> loop_i + 1])
          /\ UNCHANGED loop_i
     ELSE /\ pc' = "loop_top"
          /\ loop_i' = loop_i + 1
          /\ UNCHANGED loop_result
  /\ trace' = Append(trace, "run_loop.read_state")
  /\ UNCHANGED << current_iteration, state_file, report_file, max_iterations, successes >>
  /\ LoopFrame

\* the for loop is exhausted: return True, None
LoopReturn ==
  /\ pc = "loop_top" /\ loop_i >= max_iterations
  /\ pc' = "idle"
  /\ loop_result' = Some([ok |-> TRUE, error |-> "None", at |-> 0])
  /\ trace' = Append(trace, "run_loop.return")
  /\ UNCHANGED << current_iteration, state_file, report_file, loop_i, max_iterations,
                  successes >>
  /\ LoopFrame

\* somebody else rewrites the Status section of the state file
EditStatus ==
  /\ state_file # None /\ Count("edit_status") = 0
  /\ \E st \in Statuses :
       /\ st # extract_section(state_file[1], "Status")
       /\ state_file' = Some(update_section(state_file[1], "Status", st))
  /\ trace' = Append(trace, "edit_status")
  /\ UNCHANGED << pc, current_iteration, report_file, loop_i, max_iterations,
                  loop_result, successes >>
  /\ LoopFrame

\* somebody else removes the state file
RemoveStateFile ==
  /\ state_file # None /\ Count("remove_state_file") = 0 /\ trace # <<>>
  /\ state_file' = None
  /\ trace' = Append(trace, "remove_state_file")
  /\ UNCHANGED << pc, current_iteration, report_file, loop_i, max_iterations,
                  loop_result, successes >>
  /\ LoopFrame

NextLoop ==
  \/ CallExecuteIteration
  \/ CallRunLoop
  \/ LoopExecuteIteration
  \/ LoopReadState
  \/ LoopReturn
  \/ EditStatus
  \/ RemoveStateFile

SpecLoop == InitLoop /\ [][NextLoop]_vars

(***************************************************************************)
(* Properties of LoopController (checked under SpecLoop)                   *)
(***************************************************************************)
LoopIterations == Count("run_loop.execute_iteration")

Undisturbed == Count("edit_status") = 0 /\ Count("remove_state_file") = 0

Returned(ok, error, at) ==
  pc' = "idle" /\ loop_result' = Some([ok |-> ok, error |-> error, at |-> at])

\* C26: run_loop(max_iterations=n) executes at most n iterations; after each
\* successful iteration it reads the state again and stops as soon as the
\* mode is BLOCKED, returning success with the message that the system is
\* blocked, so a state blocked from the start gets exactly one iteration
\* and never a second; a failed iteration or a failed re-read stops the
\* loop at once with success=False.
C26_RunLoopBoundedAndStopsWhenBlocked ==
  [][/\ LoopIterations' <= Max(max_iterations', 0)
     /\ Called("run_loop.execute_iteration") =>
          IF successes' = successes + 1
          THEN pc' = "loop_read_state"
          ELSE Returned(FALSE, "Iteration failed", loop_i + 1)
     /\ Called("run_loop.read_state") =>
          IF state_file = None
          THEN Returned(FALSE, "Failed to read state after iteration", loop_i + 1)
          ELSE IF StatusSaysBlocked(state_file[1])
          THEN Returned(TRUE, "Loop stopped: System is blocked", loop_i + 1)
          ELSE pc' = "loop_top" /\ loop_i' = loop_i + 1
     /\ ("blocked_at_start" \in passed /\ Undisturbed') =>
          /\ LoopIterations' <= 1
          /\ (Count("run_loop")' = 1 /\ pc' = "idle" /\ max_iterations' >= 1) =>
               LoopIterations' = 1]_vars

\* a loop of two iterations allowed, stopped after the first one because the
\* state was blocked from the start
C26_Witness ==
  /\ "blocked_at_start" \in passed /\ Undisturbed
  /\ max_iterations = 2 /\ LoopIterations = 1 /\ pc = "idle"
  /\ loop_result = Some([ok |-> TRUE, error |-> "Loop stopped: System is blocked",
                         at |-> 1])

\* a loop that ran its two iterations to the end
C26_WitnessExhausted ==
  /\ max_iterations = 2 /\ LoopIterations = 2 /\ pc = "idle"
  /\ loop_result = Some([ok |-> TRUE, error |-> "None", at |-> 0])

OtherSections == {"Goal", "Current task", "Constraints", "Status"}

\* C27: execute_iteration is all-or-nothing: on success the counter has
\* grown by exactly 1, the report file holds the report of that iteration
\* and exactly one history line for that iteration number was appended to
\* the state file (goal, current task, constraints and status unchanged);
\* on failure for any reason the counter, the report file and the state
\* file are unchanged; so get_current_iteration() always equals the number
\* of successful iterations.
C27_ExecuteIterationAllOrNothing ==
  [][(Called("execute_iteration") \/ Called("run_loop.execute_iteration")) =>
       /\ IF successes' = successes + 1
          THEN /\ current_iteration' = current_iteration + 1
               /\ report_file' # None
               /\ report_file'[1].iteration = current_iteration'
               /\ state_file' # None
               /\ LET before == parse_content(state_file[1])
                      after == parse_content(state_file'[1])
                  IN  /\ after.iteration_history
                           = Append(before.iteration_history,
                                    HistoryLine(current_iteration', detect_mode(before)))
                      /\ after.goal = before.goal
                      /\ after.current_task = before.current_task
                      /\ after.constraints = before.constraints
                      /\ after.status = before.status
          ELSE UNCHANGED << current_iteration, report_file, state_file >>
       /\ current_iteration' = successes']_vars

====
